---- MODULE Spec2Model ----
(***************************************************************************)
(* The tool-calling orchestration of llm-toolbridge:                       *)
(*   - ToolBridge (src/llm_toolbridge/core/bridge.py): the tool registry,  *)
(*     tool resolution, and the raw-Provider (legacy) conversation loop;   *)
(*   - BaseProviderAdapter (src/core/adapter.py): process_tool_call and    *)
(*     the execute_with_tools loop;                                        *)
(*   - Tool.invoke (src/core/tool.py).                                     *)
(* The provider (generate) and the adapter's abstract methods              *)
(* (prepare_request, execute_request, parse_response) are the environment: *)
(* each call returns some response or raises some exception.               *)
(*                                                                         *)
(* Python values.  None is the string "None".  A value that a tool returns *)
(* is wrapped as [int |-> n], so that a place holding either a raw result  *)
(* or an error dict (the legacy tool_results map) holds records only.      *)
(* An exception is a record [type, msg] (RuntimeError raised "from e"      *)
(* also has cause).  "Exception" means a subclass of Exception, which is   *)
(* what `except Exception` catches.                                        *)
(***************************************************************************)
EXTENDS Integers, Sequences, FiniteSets, TLC

\* ------------------------------------------------------------------ bounds
\* Most tool calls the provider puts in one response.
MaxCalls == 2
\* max_tool_calls arguments range over 0 .. MaxCap.
MaxCap == 2
\* Longest list given to register_tools and to _resolve_tools (registry
\* specification).
MaxBatch == 2

\* ---------------------------------------------------------------- universe
None == "None"

\* Tool objects (name, bound function).  The functions:
\*   lookup  lambda key: PRICES[key], with PRICES = {"apple": 3}
\*   None    no function bound
LookupTool == [name |-> "lookup", function |-> "lookup"]
UnboundTool == [name |-> "unbound", function |-> None]
Tools == {LookupTool, UnboundTool}
ToolNames == {t.name : t \in Tools}

\* The arguments the provider puts in a tool call of lookup: a key of PRICES,
\* a key that PRICES lacks, and no key at all.
NoArguments == [k \in {} |-> ""]
LookupArguments == {[key |-> "apple"], [key |-> "pear"], NoArguments}

\* ToolCall(tool_name, arguments, call_id); call_id is optional.
CallIds == {None, "call1"}
ToolCalls ==
  [tool_name : {"lookup"}, arguments : LookupArguments, call_id : CallIds]
  \cup [tool_name : {"unbound"}, arguments : {NoArguments}, call_id : CallIds]

\* Sequences over S of length 0 .. n.
SeqUpTo(S, n) == UNION {[1 .. k -> S] : k \in 0 .. n}

\* call_id is "a unique identifier for this tool call": the calls of one
\* response that have a call_id have different ones.
UniqueCallIds(s) == \A i, j \in DOMAIN s : (i # j /\ s[i].call_id # None) => s[i].call_id # s[j].call_id

\* LLMResponse(content, tool_calls): a final text, or tool calls without text.
CallSeqs == {s \in SeqUpTo(ToolCalls, MaxCalls) \ {<<>>} : UniqueCallIds(s)}
FinalResponse == [content |-> "text", tool_calls |-> <<>>]
Responses == {FinalResponse} \cup {[content |-> None, tool_calls |-> s] : s \in CallSeqs}

\* What the provider may answer to a follow-up request (one that carries
\* tool results): a final text, or one more tool call.
FollowUps == {FinalResponse} \cup {[content |-> None, tool_calls |-> <<c>>] : c \in ToolCalls}

\* Exceptions a provider call or an adapter stage may raise.
ProviderErrors == {[type |-> "ConnectionError", msg |-> "down"], [type |-> "RuntimeError", msg |-> "bad response"]}

\* ------------------------------------------------------------ Python values
\* messages whose text holds a single quote: repr() puts them in double quotes
NoToolMsg(name) == "No tool with name '" \o name \o "' is registered"
HasSingleQuote(s) == s \in {NoToolMsg(n) : n \in ToolNames}
Repr(s) == IF HasSingleQuote(s) THEN "\"" \o s \o "\"" ELSE "'" \o s \o "'"
\* str(e): a KeyError shows the repr of its argument, the others the argument
Str(e) == IF e.type = "KeyError" THEN Repr(e.msg) ELSE e.msg

Returned(v) == [kind |-> "return", value |-> v]
Raised(e) == [kind |-> "raise", exc |-> e]
Min(a, b) == IF a < b THEN a ELSE b

\* Optional and container arguments of a request: None, a list, a dict.
PyNone == [none |-> TRUE]
PyList(s) == [list |-> s]
PyDict(d) == [dict |-> d]
EmptyDict == [k \in {} |-> PyNone]

\* --------------------------------------------------------------- Tool.invoke
\* self.function(**arguments) for the functions of the universe
CallFunction(function, arguments) ==
  CASE function = "lookup" ->
    IF "key" \notin DOMAIN arguments
    THEN Raised([type |-> "TypeError", msg |-> "lookup() missing 1 required positional argument: 'key'"])
    ELSE IF arguments.key = "apple"
         THEN Returned([int |-> 3])
         ELSE Raised([type |-> "KeyError", msg |-> arguments.key])

\* mutant: an exception of the function is turned into an error result
invoke_Contained(tool, arguments) ==
  IF tool.function = None
  THEN Raised([type |-> "ValueError", msg |-> "Tool '" \o tool.name \o "' has no associated function"])
  ELSE LET r == CallFunction(tool.function, arguments) IN
       IF r.kind = "raise" THEN Returned([error |-> Str(r.exc), success |-> FALSE]) ELSE r

invoke(tool, arguments) ==
  IF tool.function = None
  THEN Raised([type |-> "ValueError", msg |-> "Tool '" \o tool.name \o "' has no associated function"])
  ELSE CallFunction(tool.function, arguments)

\* number of calls of a bound function that invoke(tool, ...) makes
FunctionCalls(tool) == IF tool.function = None THEN 0 ELSE 1

\* ------------------------------------------------- BaseProviderAdapter helpers
\* tools_dict = {tool.name: tool for tool in (tools or [])}: the last tool of
\* a name wins
ToolsDict(ts) ==
  [n \in {ts[i].name : i \in DOMAIN ts} |->
     ts[CHOOSE i \in DOMAIN ts : ts[i].name = n /\ \A j \in DOMAIN ts : ts[j].name = n => j <= i]]

\* mutant: the message does not name the tool
NotFoundResult_NoName(tool_call) == [error |-> "Tool not found", success |-> FALSE]
NotFoundResult(tool_call) == [error |-> "Tool '" \o tool_call.tool_name \o "' not found", success |-> FALSE]
\* mutant: the error result is flagged as a success
ErrorResult_Success(e) == [error |-> Str(e), success |-> TRUE]
ErrorResult(e) == [error |-> Str(e), success |-> FALSE]

\* The except clauses of process_tool_call, in the order the code tries them.
HandleToolException(tool_call, e) ==
  IF e.type = "KeyError" THEN NotFoundResult(tool_call) ELSE ErrorResult(e)

process_tool_call(tool_call, registered_tools) ==
  IF tool_call.tool_name \notin DOMAIN registered_tools
  THEN HandleToolException(tool_call, [type |-> "KeyError", msg |-> tool_call.tool_name])
  ELSE LET r == invoke(registered_tools[tool_call.tool_name], tool_call.arguments)
       IN IF r.kind = "return"
          THEN [result |-> r.value, success |-> TRUE]
          ELSE HandleToolException(tool_call, r.exc)

\* mutant: the call_id is ignored
CallKey_NameOnly(tool_call) == tool_call.tool_name

\* call_id = tool_call.call_id or tool_call.tool_name
CallKey(tool_call) == IF tool_call.call_id \in {None, ""} THEN tool_call.tool_name ELSE tool_call.call_id

\* llm_response.tool_calls[:max_tool_calls]
SelectedCalls_All(tool_calls, m) == tool_calls
SelectedCalls_Backwards(tool_calls, m) ==
  [i \in 1..Min(m, Len(tool_calls)) |-> tool_calls[Min(m, Len(tool_calls)) + 1 - i]]
SelectedCalls(tool_calls, m) == SubSeq(tool_calls, 1, Min(m, Len(tool_calls)))

\* dict[key] = value
DictSet_KeepFirst(d, key, value) == [k \in DOMAIN d \cup {key} |-> IF k \in DOMAIN d THEN d[k] ELSE value]
DictSet(d, key, value) == [k \in DOMAIN d \cup {key} |-> IF k = key THEN value ELSE d[k]]

\* mutant: the validation lets 0 pass
ValidMaxToolCalls_NonNegative(m) == m >= 0

\* if max_tool_calls < 1: raise ValueError
ValidMaxToolCalls(m) == m >= 1

\* raise RuntimeError(f"Tool execution failed: {str(e)}") from e
ToolExecutionFailed(e) == [type |-> "RuntimeError", msg |-> "Tool execution failed: " \o Str(e), cause |-> e]

\* ------------------------------------------------------------------ ToolBridge
\* What Bridge.execute may be given as `tools`: a Tool object, the name of a
\* tool, or something that is neither.
ToolRefs == {[tool |-> t] : t \in Tools} \cup {[str |-> n] : n \in ToolNames} \cup {[int |-> 123]}
\* The `tools` arguments tried: None (every registered tool), the empty list,
\* a Tool object, the name of a tool, something of another type.
ToolsArgs == {PyNone, PyList(<<>>), PyList(<<[tool |-> LookupTool]>>), PyList(<<[str |-> "lookup"]>>), PyList(<<[int |-> 123]>>)}

VARIABLES
  self_tools,      \* ToolBridge.tools: the registered Tools, in insertion order
  backing,         \* what the ToolBridge was constructed with: "adapter" or "provider"
                   \* ("core_provider": a src.core.bridge.ToolBridge, with its Provider)
  pc,              \* where the execute invocation stands
  tools,           \* the resolved tools of the invocation
  max_tool_calls,  \* the max_tool_calls argument
  tools_dict,      \* execute_with_tools: name -> Tool of the supplied tools
  tool_results,    \* the tool-results map of the invocation
  response,        \* llm_response (adapter) / response (raw provider): the last parsed response
  idx,             \* position of the for loop over the tool calls
  call_count,      \* _execute_with_provider: rounds of tool calls so far
  outcome,         \* outcome of the last Bridge call: pending, return (value) or raise (exc)
  log,             \* what the collaborators saw: numbers of calls, the last request, the last response
  ctx,             \* the call in hand: the method called, its arguments, where it runs
  cls_registry,    \* AdapterRegistry._registry: provider name -> adapter class
  parked           \* the local variables of a second invocation on the same ToolBridge, while it does not run

vars == <<self_tools, backing, pc, tools, max_tool_calls, tools_dict, tool_results, response, idx, call_count, outcome, log, ctx, cls_registry, parked>>
frame == <<tools, max_tool_calls, tools_dict, tool_results, response, idx, call_count>>

\* The counters of the log only observe a run; they stop at CountCap, which no
\* run of the loops below reaches, so that a loop that never ended would still
\* have finitely many states.
CountCap == MaxCalls + MaxCap + 1
Count(n, k) == Min(n + k, CountCap)

Pending == [kind |-> "pending"]
\* Nothing called yet.  prepare, execute, parse, generate: calls of the
\* collaborator's method; delegated: calls of Adapter.execute_with_tools;
\* processed: tool calls handled; invoked: calls of a tool's bound function;
\* request: arguments of the last prepare_request / generate call (in the
\* specifications of single methods: of the call made to the vendor client,
\* to the bound function or to the adapter class); parsed: the last
\* LLMResponse a collaborator returned; raised: the exception a collaborator
\* raised.
NoLog == [prepare |-> 0, execute |-> 0, parse |-> 0, generate |-> 0, delegated |-> 0, processed |-> 0,
          invoked |-> 0, request |-> PyNone, parsed |-> PyNone, raised |-> PyNone]

\* parked when the ToolBridge has no second invocation
NoFrame == [pc |-> "none"]

\* The call in hand: which method of the ToolBridge was called, with what,
\* and where it runs.
\*   entry     the method that was called: "execute" (a coroutine, run as a task
\*             of the caller's event loop), "execute_sync" (blocking), or a
\*             method of the registry
\*   args      the arguments of a call of a registry method
\*   provider  the class of the raw Provider the ToolBridge holds
\*   task      the invocation: "running" (it holds the thread that called it:
\*             for execute, the event-loop thread), "awaiting" (suspended in an
\*             await, the event loop is free), "finished" (returned or raised)
\*   io        where blocking work in progress runs (a provider round-trip,
\*             or the whole of Adapter.execute_with_tools): "own_thread" (the
\*             invocation does it itself on the thread it holds) or "worker"
\*             (a thread of asyncio.to_thread)
\*   others    another task of the event loop ran while the invocation was
\*             outstanding
\* Spec follows one invocation as one sequential thread of control and leaves
\* this out: ctx stays NoCtx.
NoCtx == [entry |-> "none", args |-> PyNone, provider |-> "none", task |-> "none", io |-> "none", others |-> FALSE]

Init ==
  /\ ctx = NoCtx
  /\ self_tools = <<>>
  /\ backing \in {"adapter", "provider"}
  /\ pc = "idle"
  /\ tools = <<>>
  /\ max_tool_calls = 0
  /\ tools_dict = EmptyDict
  /\ tool_results = EmptyDict
  /\ response = PyNone
  /\ idx = 0
  /\ call_count = 0
  /\ outcome = Pending
  /\ log = NoLog
  /\ cls_registry = EmptyDict
  /\ parked = NoFrame

IsRegistered(name) == \E i \in DOMAIN self_tools : self_tools[i].name = name
Registered(name) == self_tools[CHOOSE i \in DOMAIN self_tools : self_tools[i].name = name]

\* register_tool: a name already present raises ValueError, a new one is added
\* mutant: self.tools[tool.name] = tool without the test
register_tool_call_Replace(tool) ==
  /\ pc = "idle"
  /\ self_tools' = IF IsRegistered(tool.name)
                   THEN [i \in DOMAIN self_tools |-> IF self_tools[i].name = tool.name THEN tool ELSE self_tools[i]]
                   ELSE Append(self_tools, tool)
  /\ outcome' = Returned(PyNone)
  /\ UNCHANGED <<backing, pc, frame, log>>

register_tool_call(tool) ==
  /\ pc = "idle"
  /\ IF IsRegistered(tool.name)
     THEN /\ outcome' = Raised([type |-> "ValueError", msg |-> "Tool with name '" \o tool.name \o "' is already registered"])
          /\ UNCHANGED self_tools
     ELSE /\ self_tools' = Append(self_tools, tool)
          /\ outcome' = Returned(PyNone)
  /\ UNCHANGED <<backing, pc, frame, log>>

register_tool(tool) == register_tool_call(tool) /\ UNCHANGED <<ctx, cls_registry, parked>>

get_tool(name) ==
  IF ~IsRegistered(name)
  THEN Raised([type |-> "KeyError", msg |-> NoToolMsg(name)])
  ELSE Returned(Registered(name))

\* the for loop of _resolve_tools over refs, with `resolved` collected so far
RECURSIVE ResolveLoop(_, _)
ResolveLoop(refs, resolved) ==
  IF refs = <<>> THEN Returned(resolved)
  ELSE LET ref == Head(refs) IN
       IF "tool" \in DOMAIN ref THEN ResolveLoop(Tail(refs), Append(resolved, ref.tool))
       ELSE IF "str" \in DOMAIN ref
            THEN LET g == get_tool(ref.str) IN
                 IF g.kind = "raise" THEN g ELSE ResolveLoop(Tail(refs), Append(resolved, g.value))
            ELSE Raised([type |-> "TypeError", msg |-> "Expected Tool or str, got int"])

\* mutant: None is taken for the empty list
resolve_tools_NoneIsEmpty(tools_arg) ==
  IF tools_arg = PyNone THEN Returned(<<>>) ELSE ResolveLoop(tools_arg.list, <<>>)

resolve_tools(tools_arg) ==
  IF tools_arg = PyNone THEN Returned(self_tools) ELSE ResolveLoop(tools_arg.list, <<>>)

\* mutant: the name-to-Tool map is built from the registry of the ToolBridge
execute_with_tools_RegistryMap(ts, m) ==
  IF ~ValidMaxToolCalls(m)
  THEN /\ outcome' = Raised([type |-> "ValueError", msg |-> "max_tool_calls must be at least 1"])
       /\ pc' = "done"
       /\ tools' = ts
       /\ max_tool_calls' = m
       /\ log' = [log EXCEPT !.delegated = Count(@, 1)]
       /\ UNCHANGED <<tools_dict, tool_results, response, idx, call_count>>
  ELSE /\ tools' = ts
       /\ max_tool_calls' = m
       /\ tools_dict' = ToolsDict(self_tools)
       /\ tool_results' = EmptyDict
       /\ pc' = "prepare1"
       /\ outcome' = Pending
       /\ log' = [log EXCEPT !.delegated = Count(@, 1)]
       /\ UNCHANGED <<response, idx, call_count>>

\* The start of Adapter.execute_with_tools(prompt, ts, m): the validation of
\* max_tool_calls, tools_dict and tool_results, up to the first call of a
\* collaborator.
execute_with_tools(ts, m) ==
  IF ~ValidMaxToolCalls(m)
  THEN /\ outcome' = Raised([type |-> "ValueError", msg |-> "max_tool_calls must be at least 1"])
       /\ pc' = "done"
       /\ tools' = ts
       /\ max_tool_calls' = m
       /\ log' = [log EXCEPT !.delegated = Count(@, 1)]
       /\ UNCHANGED <<tools_dict, tool_results, response, idx, call_count>>
  ELSE /\ tools' = ts
       /\ max_tool_calls' = m
       /\ tools_dict' = ToolsDict(ts)
       /\ tool_results' = EmptyDict
       /\ pc' = "prepare1"
       /\ outcome' = Pending
       /\ log' = [log EXCEPT !.delegated = Count(@, 1)]
       /\ UNCHANGED <<response, idx, call_count>>

\* The start of _execute_with_provider(prompt, ts, m), up to the first call
\* of provider.generate.
execute_with_provider(ts, m) ==
  /\ tools' = ts
  /\ max_tool_calls' = m
  /\ pc' = "generate"
  /\ outcome' = Pending
  /\ UNCHANGED <<tools_dict, tool_results, response, idx, call_count, log>>

\* mutant: the collaborator is called before the error is raised
RaiseAtOnce_AfterDelegation(r) ==
  /\ outcome' = r
  /\ pc' = "done"
  /\ log' = [log EXCEPT !.delegated = Count(@, 1)]
  /\ UNCHANGED frame

\* the call raises e before anything else is done
RaiseAtOnce(r) ==
  /\ outcome' = r
  /\ pc' = "done"
  /\ UNCHANGED <<frame, log>>

\* mutant: every registered tool is handed over, whatever was asked for
execute_call_AllTools(tools_arg, m) ==
  /\ pc = "idle"
  /\ LET r == resolve_tools(tools_arg) IN
     IF r.kind = "raise"
     THEN RaiseAtOnce(r)
     ELSE IF backing = "adapter"
          THEN execute_with_tools(self_tools, m)
          ELSE execute_with_provider(self_tools, m)
  /\ UNCHANGED <<self_tools, backing>>

\* ToolBridge.execute(prompt, tools_arg, m), up to its first call of a
\* collaborator: the tools are resolved, then the call goes to the adapter
\* (execute_with_tools) or to the raw-provider loop.
execute_call(tools_arg, m) ==
  /\ pc = "idle"
  /\ LET r == resolve_tools(tools_arg) IN
     IF r.kind = "raise"
     THEN RaiseAtOnce(r)
     ELSE IF backing = "adapter"
          THEN execute_with_tools(r.value, m)
          ELSE execute_with_provider(r.value, m)
  /\ UNCHANGED <<self_tools, backing>>

\* mutant: execute_sync leaves max_tool_calls at the adapter's default
execute_sync_call_DefaultCap(tools_arg, m) ==
  IF backing = "adapter"
  THEN /\ pc = "idle"
       /\ LET r == resolve_tools(tools_arg) IN
          IF r.kind = "raise"
          THEN RaiseAtOnce(r)
          ELSE execute_with_tools(r.value, MaxCap)
       /\ UNCHANGED <<self_tools, backing>>
  ELSE execute_call(tools_arg, m)

\* ToolBridge.execute_sync(prompt, tools_arg, m), up to its first call of a
\* collaborator: with an adapter it resolves the tools and calls
\* execute_with_tools itself; otherwise it is asyncio.run(self.execute(...)).
execute_sync_call(tools_arg, m) ==
  IF backing = "adapter"
  THEN /\ pc = "idle"
       /\ LET r == resolve_tools(tools_arg) IN
          IF r.kind = "raise"
          THEN RaiseAtOnce(r)
          ELSE execute_with_tools(r.value, m)
       /\ UNCHANGED <<self_tools, backing>>
  ELSE execute_call(tools_arg, m)

execute(tools_arg, m) == execute_call(tools_arg, m) /\ UNCHANGED <<ctx, cls_registry, parked>>

execute_sync(tools_arg, m) == execute_sync_call(tools_arg, m) /\ UNCHANGED <<ctx, cls_registry, parked>>

\* ------------------------------------------- BaseProviderAdapter.execute_with_tools
\* mutant: the follow-up offers the tools again
AdapterRequest_Reoffer ==
  IF pc = "prepare1"
  THEN [tools |-> PyList(tools), tool_results |-> PyNone]
  ELSE [tools |-> PyList(tools), tool_results |-> PyDict(tool_results)]

\* The arguments of the prepare_request call of each round.
AdapterRequest ==
  IF pc = "prepare1"
  THEN [tools |-> PyList(tools), tool_results |-> PyNone]
  ELSE [tools |-> PyNone, tool_results |-> PyDict(tool_results)]

\* mutant: the exception is re-raised as it is
Wrapped_Bare(e) == Raised(e)

\* except Exception as e: raise RuntimeError(...) from e
Wrapped(e) == Raised(ToolExecutionFailed(e))

Fail(e) ==
  /\ outcome' = Wrapped(e)
  /\ pc' = "done"

\* prepare_request(prompt, tools, **kwargs) and
\* prepare_request(prompt, None, tool_results, **kwargs): returns or raises
prepare_request ==
  /\ pc \in {"prepare1", "prepare2"}
  /\ \/ /\ pc' = IF pc = "prepare1" THEN "execute1" ELSE "execute2"
        /\ log' = [log EXCEPT !.prepare = Count(@, 1), !.request = AdapterRequest]
        /\ UNCHANGED outcome
     \/ \E e \in ProviderErrors :
          /\ Fail(e)
          /\ log' = [log EXCEPT !.prepare = Count(@, 1), !.request = AdapterRequest, !.raised = e]
  /\ UNCHANGED <<ctx, cls_registry, parked, self_tools, backing, frame>>

\* execute_request(request): returns or raises
execute_request ==
  /\ pc \in {"execute1", "execute2"}
  /\ \/ /\ pc' = IF pc = "execute1" THEN "parse1" ELSE "parse2"
        /\ log' = [log EXCEPT !.execute = Count(@, 1)]
        /\ UNCHANGED outcome
     \/ \E e \in ProviderErrors :
          /\ Fail(e)
          /\ log' = [log EXCEPT !.execute = Count(@, 1), !.raised = e]
  /\ UNCHANGED <<ctx, cls_registry, parked, self_tools, backing, frame>>

\* the response that the second round leaves in llm_response
SecondResponse(old, new) == new

\* mutant: the for loop is entered whatever the response holds
AfterFirstParse_AlwaysLoop(r) ==
  /\ pc' = "tools"
  /\ idx' = 1
  /\ UNCHANGED outcome

\* after the first parse_response: return at once, or start the for loop
AfterFirstParse(r) ==
  IF r.tool_calls = <<>>
  THEN /\ outcome' = Returned(r)
       /\ pc' = "done"
       /\ idx' = idx
  ELSE /\ pc' = "tools"
       /\ idx' = 1
       /\ UNCHANGED outcome

\* parse_response(response_obj): returns an LLMResponse or raises
parse_response ==
  /\ pc \in {"parse1", "parse2"}
  /\ \/ /\ pc = "parse1"
        /\ \E r \in Responses :
             /\ log' = [log EXCEPT !.parse = Count(@, 1), !.parsed = r]
             /\ response' = r
             /\ AfterFirstParse(r)
     \/ /\ pc = "parse2"
        /\ \E r \in FollowUps :
             /\ log' = [log EXCEPT !.parse = Count(@, 1), !.parsed = r]
             /\ response' = SecondResponse(response, r)
             /\ outcome' = Returned(response')
             /\ pc' = "done"
             /\ UNCHANGED idx
     \/ /\ \E e \in ProviderErrors :
             /\ Fail(e)
             /\ log' = [log EXCEPT !.parse = Count(@, 1), !.raised = e]
        /\ UNCHANGED <<response, idx>>
  /\ UNCHANGED <<ctx, cls_registry, parked, self_tools, backing, tools, max_tool_calls, tools_dict, tool_results, call_count>>

\* bound functions called while process_tool_call handles tool_call
AdapterFunctionCalls(tool_call) ==
  IF tool_call.tool_name \in DOMAIN tools_dict THEN FunctionCalls(tools_dict[tool_call.tool_name]) ELSE 0

\* after the for loop: if tool_results: follow-up request, else return
AfterToolLoop(results) ==
  IF results # EmptyDict
  THEN /\ pc' = "prepare2"
       /\ UNCHANGED outcome
  ELSE /\ outcome' = Returned(response)
       /\ pc' = "done"

\* one iteration of: for tool_call in llm_response.tool_calls[:max_tool_calls]
adapter_tool_step ==
  /\ pc = "tools"
  /\ LET selected == SelectedCalls(response.tool_calls, max_tool_calls) IN
     IF idx > Len(selected)
     THEN /\ AfterToolLoop(tool_results)
          /\ UNCHANGED <<tool_results, idx, log>>
     ELSE LET tool_call == selected[idx]
              result == process_tool_call(tool_call, tools_dict)
          IN /\ tool_results' = DictSet(tool_results, CallKey(tool_call), result)
             /\ log' = [log EXCEPT !.processed = Count(@, 1), !.invoked = Count(@, AdapterFunctionCalls(tool_call))]
             /\ IF idx = Len(selected)
                THEN /\ AfterToolLoop(tool_results')
                     /\ UNCHANGED idx
                ELSE /\ idx' = idx + 1
                     /\ UNCHANGED <<pc, outcome>>
  /\ UNCHANGED <<ctx, cls_registry, parked, self_tools, backing, tools, max_tool_calls, tools_dict, response, call_count>>

\* ------------------------------------------------ ToolBridge._execute_with_provider
\* mutant: the follow-up offers the resolved tools again
ProviderRequest_Reoffer ==
  IF pc = "generate"
  THEN [tools |-> PyList(tools), tool_results |-> PyNone]
  ELSE [tools |-> PyList(tools), tool_results |-> PyDict(tool_results)]

\* The arguments of provider.generate: the initial call offers the resolved
\* tools; a follow-up passes tools=[] and the tool results.
ProviderRequest ==
  IF pc = "generate"
  THEN [tools |-> PyList(tools), tool_results |-> PyNone]
  ELSE [tools |-> PyList(<<>>), tool_results |-> PyDict(tool_results)]

\* mutant: the cap is tested with <=
LoopCondition_OffByOne(r, count, m) == r.tool_calls # <<>> /\ count <= m

\* while response.tool_calls and call_count < max_tool_calls
LoopCondition(r, count, m) == r.tool_calls # <<>> /\ count < m

\* mutant: call_count += 1 is forgotten
AfterGenerate_NoCount(r, count) ==
  IF LoopCondition(r, count, max_tool_calls)
  THEN /\ call_count' = count
       /\ idx' = 1
       /\ pc' = "invoke"
       /\ UNCHANGED outcome
  ELSE /\ call_count' = count
       /\ outcome' = Returned(r)
       /\ pc' = "done"
       /\ UNCHANGED idx

\* the loop test after a generate call has returned r, with `count` rounds done
AfterGenerate(r, count) ==
  IF LoopCondition(r, count, max_tool_calls)
  THEN /\ call_count' = count + 1
       /\ idx' = 1
       /\ pc' = "invoke"
       /\ UNCHANGED outcome
  ELSE /\ call_count' = count
       /\ outcome' = Returned(r)
       /\ pc' = "done"
       /\ UNCHANGED idx

\* mutant: the map is emptied after every follow-up
generate_with_Reset(request) ==
  /\ pc \in {"generate", "generate_followup"}
  /\ \/ /\ pc = "generate"
        /\ \E r \in Responses :
             /\ log' = [log EXCEPT !.generate = Count(@, 1), !.request = request, !.parsed = r]
             /\ response' = r
             /\ tool_results' = EmptyDict
             /\ AfterGenerate(r, 0)
     \/ /\ pc = "generate_followup"
        /\ \E r \in FollowUps :
             /\ log' = [log EXCEPT !.generate = Count(@, 1), !.request = request, !.parsed = r]
             /\ response' = r
             /\ tool_results' = EmptyDict
             /\ AfterGenerate(r, call_count)
     \/ /\ \E e \in ProviderErrors :
             /\ outcome' = Raised(e)
             /\ pc' = "done"
             /\ log' = [log EXCEPT !.generate = Count(@, 1), !.request = request, !.raised = e]
        /\ UNCHANGED <<response, tool_results, idx, call_count>>
  /\ UNCHANGED <<self_tools, backing, tools, max_tool_calls, tools_dict>>

\* await provider.generate(...): returns an LLMResponse or raises; nothing
\* in _execute_with_provider catches what it raises
generate_with(request) ==
  /\ pc \in {"generate", "generate_followup"}
  /\ \/ /\ pc = "generate"
        /\ \E r \in Responses :
             /\ log' = [log EXCEPT !.generate = Count(@, 1), !.request = request, !.parsed = r]
             /\ response' = r
             /\ tool_results' = EmptyDict
             /\ AfterGenerate(r, 0)
     \/ /\ pc = "generate_followup"
        /\ \E r \in FollowUps :
             /\ log' = [log EXCEPT !.generate = Count(@, 1), !.request = request, !.parsed = r]
             /\ response' = r
             /\ UNCHANGED tool_results
             /\ AfterGenerate(r, call_count)
     \/ /\ \E e \in ProviderErrors :
             /\ outcome' = Raised(e)
             /\ pc' = "done"
             /\ log' = [log EXCEPT !.generate = Count(@, 1), !.request = request, !.raised = e]
        /\ UNCHANGED <<response, tool_results, idx, call_count>>
  /\ UNCHANGED <<self_tools, backing, tools, max_tool_calls, tools_dict>>

generate_call == generate_with(ProviderRequest)

generate == generate_call /\ UNCHANGED <<ctx, cls_registry, parked>>

\* mutant: the tool is looked up among the tools resolved for the call
ProviderToolResult_Resolved(tool_call) ==
  IF tool_call.tool_name \notin DOMAIN ToolsDict(tools)
  THEN ErrorResult([type |-> "KeyError", msg |-> NoToolMsg(tool_call.tool_name)])
  ELSE LET r == invoke(ToolsDict(tools)[tool_call.tool_name], tool_call.arguments) IN
       IF r.kind = "return" THEN r.value ELSE ErrorResult(r.exc)

\* the body of the try of the raw-provider loop: the value stored for tool_call
ProviderToolResult(tool_call) ==
  LET g == get_tool(tool_call.tool_name) IN
  IF g.kind = "raise" THEN ErrorResult(g.exc)
  ELSE LET r == invoke(g.value, tool_call.arguments) IN
       IF r.kind = "return" THEN r.value ELSE ErrorResult(r.exc)

ProviderFunctionCalls(tool_call) ==
  IF IsRegistered(tool_call.tool_name) THEN FunctionCalls(Registered(tool_call.tool_name)) ELSE 0

\* mutant: the follow-up is requested after the first tool call of the round
provider_tool_step_FirstOnly ==
  /\ pc = "invoke"
  /\ LET tool_call == response.tool_calls[idx] IN
     /\ tool_results' = DictSet(tool_results, CallKey(tool_call), ProviderToolResult(tool_call))
     /\ log' = [log EXCEPT !.processed = Count(@, 1), !.invoked = Count(@, ProviderFunctionCalls(tool_call))]
  /\ pc' = "generate_followup"
  /\ UNCHANGED <<ctx, cls_registry, parked, self_tools, backing, tools, max_tool_calls, tools_dict, response, idx, call_count, outcome>>

\* one iteration of: for tool_call in response.tool_calls
provider_tool_step ==
  /\ pc = "invoke"
  /\ LET tool_call == response.tool_calls[idx] IN
     /\ tool_results' = DictSet(tool_results, CallKey(tool_call), ProviderToolResult(tool_call))
     /\ log' = [log EXCEPT !.processed = Count(@, 1), !.invoked = Count(@, ProviderFunctionCalls(tool_call))]
  /\ IF idx = Len(response.tool_calls)
     THEN /\ pc' = "generate_followup"
          /\ UNCHANGED idx
     ELSE /\ idx' = idx + 1
          /\ UNCHANGED pc
  /\ UNCHANGED <<ctx, cls_registry, parked, self_tools, backing, tools, max_tool_calls, tools_dict, response, call_count, outcome>>

\* -------------------------------------------------------------- specification
Next ==
  \/ \E t \in Tools : register_tool(t)
  \/ \E a \in ToolsArgs, m \in 0 .. MaxCap : execute(a, m)
  \/ \E a \in ToolsArgs, m \in 0 .. MaxCap : execute_sync(a, m)
  \/ prepare_request
  \/ execute_request
  \/ parse_response
  \/ adapter_tool_step
  \/ generate
  \/ provider_tool_step

Spec == Init /\ [][Next]_vars

\* ------------------------------------------------------- registry specification
\* The registry methods of the ToolBridge on their own: register_tool,
\* register_tools, get_tool and _resolve_tools, called in any order with any
\* arguments, among them two different Tool objects of the same name.
ShadowTool == [name |-> "lookup", function |-> None]
RegistryTools == Tools \cup {ShadowTool}
Batches == SeqUpTo(RegistryTools, MaxBatch)
RegistryRefs == {[tool |-> UnboundTool], [int |-> 123]} \cup {[str |-> n] : n \in ToolNames}
ResolveArgs == {PyNone} \cup {PyList(refs) : refs \in SeqUpTo(RegistryRefs, MaxBatch)}

\* mutant: a failing register_tools call registers nothing
RegisterLoop_Rollback(ts, reg) ==
  LET dup(k) == \/ \E i \in DOMAIN reg : reg[i].name = ts[k].name
                \/ \E j \in 1 .. k - 1 : ts[j].name = ts[k].name
  IN IF \E k \in DOMAIN ts : dup(k)
     THEN LET k == CHOOSE k \in DOMAIN ts : dup(k) /\ \A j \in 1 .. k - 1 : ~dup(j)
          IN [tools |-> reg,
              outcome |-> Raised([type |-> "ValueError", msg |-> "Tool with name '" \o ts[k].name \o "' is already registered"])]
     ELSE [tools |-> reg \o ts, outcome |-> Returned(PyNone)]

\* for tool in tools: self.register_tool(tool), with registry reg: the
\* registry it leaves and how it ends
RECURSIVE RegisterLoop(_, _)
RegisterLoop(ts, reg) ==
  IF ts = <<>> THEN [tools |-> reg, outcome |-> Returned(PyNone)]
  ELSE IF \E i \in DOMAIN reg : reg[i].name = Head(ts).name
       THEN [tools |-> reg,
             outcome |-> Raised([type |-> "ValueError", msg |-> "Tool with name '" \o Head(ts).name \o "' is already registered"])]
       ELSE RegisterLoop(Tail(ts), Append(reg, Head(ts)))

register_tools_call(ts) ==
  /\ pc = "idle"
  /\ LET r == RegisterLoop(ts, self_tools) IN
     /\ self_tools' = r.tools
     /\ outcome' = r.outcome
  /\ UNCHANGED <<backing, pc, frame, log>>

\* mutant: _resolve_tools registers the Tool objects it is given
resolve_tools_call_Registering(tools_arg) ==
  /\ pc = "idle"
  /\ LET r == resolve_tools(tools_arg) IN
     /\ outcome' = IF r.kind = "return" THEN Returned(PyList(r.value)) ELSE r
     /\ self_tools' = IF r.kind = "return"
                      THEN self_tools \o SelectSeq(r.value, LAMBDA t : ~IsRegistered(t.name))
                      ELSE self_tools
  /\ UNCHANGED <<backing, pc, frame, log>>

\* the list that _resolve_tools returns, as a list value
resolve_tools_call(tools_arg) ==
  /\ pc = "idle"
  /\ LET r == resolve_tools(tools_arg) IN
     outcome' = IF r.kind = "return" THEN Returned(PyList(r.value)) ELSE r
  /\ UNCHANGED <<self_tools, backing, pc, frame, log>>

get_tool_call(name) ==
  /\ pc = "idle"
  /\ outcome' = get_tool(name)
  /\ UNCHANGED <<self_tools, backing, pc, frame, log>>

Called(method, args) == [NoCtx EXCEPT !.entry = method, !.args = args]

call_register_tool(tool) == register_tool_call(tool) /\ ctx' = Called("register_tool", [tool |-> tool]) /\ UNCHANGED <<cls_registry, parked>>
call_register_tools(ts) == register_tools_call(ts) /\ ctx' = Called("register_tools", PyList(ts)) /\ UNCHANGED <<cls_registry, parked>>
call_get_tool(name) == get_tool_call(name) /\ ctx' = Called("get_tool", [str |-> name]) /\ UNCHANGED <<cls_registry, parked>>
call_resolve_tools(tools_arg) == resolve_tools_call(tools_arg) /\ ctx' = Called("_resolve_tools", tools_arg) /\ UNCHANGED <<cls_registry, parked>>

RegistryNext ==
  \/ \E t \in RegistryTools : call_register_tool(t)
  \/ \E ts \in Batches : call_register_tools(ts)
  \/ \E n \in ToolNames : call_get_tool(n)
  \/ \E a \in ResolveArgs : call_resolve_tools(a)

RegistrySpec == Init /\ [][RegistryNext]_vars

\* ------------------------------------------------ the invocation as a task
\* AsyncSpec follows the same invocation together with the thread it runs on:
\* ctx records which entry point was called, whether the invocation holds its
\* thread or is suspended in an await, and where blocking work in progress
\* runs ("own_thread": the thread of the invocation itself, which for execute
\* is the thread of the event loop; "worker": a thread of asyncio.to_thread).
ProviderClasses == {"openai", "azure_openai", "gemini"}

\* Provider.generate of each class: GeminiProvider awaits
\* asyncio.to_thread(self._generate_sync, ...); OpenAIProvider and
\* AzureOpenAIProvider call self._generate_sync(...) in the coroutine itself.
GenerateRuns(provider) == IF provider = "gemini" THEN "worker" ELSE "own_thread"

\* mutant: execute calls execute_with_tools as execute_sync does
AdapterRuns_Direct(entry) == "own_thread"

\* where Adapter.execute_with_tools runs: execute awaits
\* asyncio.to_thread(execute_with_tools, ...), execute_sync calls it
AdapterRuns(entry) == IF entry = "execute" THEN "worker" ELSE "own_thread"

\* an invocation that waits for a worker is suspended in its await; one that
\* does the work itself holds its thread
TaskWhile(where) == IF where = "worker" THEN "awaiting" ELSE "running"

AsyncInit ==
  /\ Init!2 /\ Init!3 /\ Init!4 /\ Init!5 /\ Init!6 /\ Init!7 /\ Init!8
  /\ Init!9 /\ Init!10 /\ Init!11 /\ Init!12 /\ Init!13 /\ Init!14 /\ Init!15
  /\ \E p \in ProviderClasses \cup {"none"} :
       /\ (p = "none") <=> (backing = "adapter")
       /\ ctx = [NoCtx EXCEPT !.provider = p]

\* the call of an entry point: where the invocation stands after `start`
Entered(entry, tools_arg) ==
  LET where == IF backing = "adapter" /\ resolve_tools(tools_arg).kind = "return"
               THEN AdapterRuns(entry)
               ELSE "none"
  IN [ctx EXCEPT !.entry = entry, !.io = where,
                  !.task = IF resolve_tools(tools_arg).kind = "raise" THEN "finished" ELSE TaskWhile(where)]

\* await bridge.execute(prompt, tools_arg, m), as a task of an event loop
async_execute(tools_arg, m) ==
  /\ execute_call(tools_arg, m)
  /\ UNCHANGED <<cls_registry, parked>>
  /\ ctx' = Entered("execute", tools_arg)

\* bridge.execute_sync(prompt, tools_arg, m), outside a running event loop
sync_execute(tools_arg, m) ==
  /\ execute_sync_call(tools_arg, m)
  /\ UNCHANGED <<cls_registry, parked>>
  /\ ctx' = Entered("execute_sync", tools_arg)

\* response = await self.provider.generate(...): the round-trip is started
send_generate ==
  /\ pc \in {"generate", "generate_followup"}
  /\ ctx.io = "none"
  /\ UNCHANGED <<cls_registry, parked>>
  /\ ctx' = [ctx EXCEPT !.io = GenerateRuns(ctx.provider), !.task = TaskWhile(GenerateRuns(ctx.provider))]
  /\ UNCHANGED <<self_tools, backing, pc, frame, outcome, log>>

\* the round-trip resolves: generate returns or raises in the invocation,
\* which goes on to the tool loop or, in the same stretch of its thread,
\* returns or raises to its caller
await_generate ==
  /\ ctx.io # "none"
  /\ generate_call
  /\ UNCHANGED <<cls_registry, parked>>
  /\ ctx' = [ctx EXCEPT !.io = "none", !.task = IF pc' = "done" THEN "finished" ELSE "running"]

\* execute_with_tools has returned or raised: the invocation hands that to
\* its caller; after an await of to_thread, this is the resumption with the
\* result of the worker
return_to_caller ==
  /\ pc = "done"
  /\ ctx.task \in {"running", "awaiting"}
  /\ UNCHANGED <<cls_registry, parked>>
  /\ ctx' = [ctx EXCEPT !.io = "none", !.task = "finished"]
  /\ UNCHANGED <<self_tools, backing, pc, frame, outcome, log>>

\* the event loop runs another of its tasks: possible when the task of
\* execute is suspended, impossible while it holds the thread of the loop
other_task ==
  /\ ctx.entry = "execute"
  /\ ctx.task = "awaiting"
  /\ ~ctx.others
  /\ UNCHANGED <<cls_registry, parked>>
  /\ ctx' = [ctx EXCEPT !.others = TRUE]
  /\ UNCHANGED <<self_tools, backing, pc, frame, outcome, log>>

AsyncNext ==
  \/ \E t \in Tools : register_tool(t)
  \/ \E a \in ToolsArgs, m \in 0 .. MaxCap : async_execute(a, m)
  \/ \E a \in ToolsArgs, m \in 0 .. MaxCap : sync_execute(a, m)
  \/ prepare_request
  \/ execute_request
  \/ parse_response
  \/ adapter_tool_step
  \/ send_generate
  \/ await_generate
  \/ provider_tool_step
  \/ return_to_caller
  \/ other_task

AsyncSpec == AsyncInit /\ [][AsyncNext]_vars

\* ------------------------------------------------------------- Tool.to_dict
\* Bound: the largest number of parameters of a Tool.
MaxParams == 2

PyStr(s) == [str |-> s]
PyBool(b) == [bool |-> b]
ColorEnum == PyList(<<"red", "green">>)

\* ParameterDefinition(type, description, enum=None, required=True, default=None)
ParameterDefinitions ==
  {[model |-> [type |-> PyStr("string"), description |-> PyStr("a parameter"), enum |-> e,
               required |-> PyBool(r), default |-> d]] :
     e \in {PyNone, ColorEnum}, r \in BOOLEAN, d \in {PyNone, PyStr("red")}}

\* a parameter given as a raw mapping: type and description, and enum and
\* required left out, None, or given
RawKeys(with_enum, with_required) ==
  {"type", "description"} \cup (IF with_enum THEN {"enum"} ELSE {}) \cup (IF with_required THEN {"required"} ELSE {})
RawMapping(with_enum, e, with_required, r) ==
  [k \in RawKeys(with_enum, with_required) |->
     CASE k = "type" -> PyStr("string")
       [] k = "description" -> PyStr("a parameter")
       [] k = "enum" -> e
       [] k = "required" -> r]
RawMappings ==
  {[dict |-> RawMapping(we, e, wr, r)] :
     we \in BOOLEAN, e \in {PyNone, ColorEnum}, wr \in BOOLEAN, r \in {PyNone, PyBool(TRUE), PyBool(FALSE)}}

ParamDefs == ParameterDefinitions \cup RawMappings
ParamNames == {"color", "shade", "tone"}
\* Tool.parameters: a dict, that is a list of (name, definition) items with
\* different names, in insertion order
DistinctNames(items) == \A i, j \in DOMAIN items : items[i].name = items[j].name => i = j
Parameters == {items \in SeqUpTo([name : ParamNames, def : ParamDefs], MaxParams) : DistinctNames(items)}
SchemaTools == [name : {"paint"}, description : {"paints"}, parameters : Parameters, function : {None}]

\* mutant: the None values are kept
WithoutNone_Keep(d) == d

\* {k: v for k, v in param_dict.items() if v is not None}
WithoutNone(d) == [k \in {k \in DOMAIN d : d[k] # PyNone} |-> d[k]]

\* Python's truth value of the values of the universe
Truthy(v) ==
  CASE v = PyNone -> FALSE
    [] "bool" \in DOMAIN v -> v.bool
    [] "str" \in DOMAIN v -> v.str # ""
    [] "list" \in DOMAIN v -> v.list # <<>>

\* param_def.model_dump(exclude={"required"})
model_dump(m) == [k \in DOMAIN m \ {"required"} |-> m[k]]

\* the property emitted for one parameter
ParamDict(param_def) ==
  IF "dict" \in DOMAIN param_def
  THEN WithoutNone(param_def.dict)
  ELSE WithoutNone(model_dump(param_def.model))

\* whether the parameter is appended to result["parameters"]["required"]
IsRequired(param_def) ==
  IF "dict" \in DOMAIN param_def
  THEN LET param_dict == ParamDict(param_def) IN
       IF "required" \in DOMAIN param_dict THEN Truthy(param_dict["required"]) ELSE TRUE
  ELSE param_def.model.required.bool

\* the required list after the for loop over items
RECURSIVE RequiredNames(_)
RequiredNames(items) ==
  IF items = <<>> THEN <<>>
  ELSE (IF IsRequired(Head(items).def) THEN <<Head(items).name>> ELSE <<>>) \o RequiredNames(Tail(items))

\* mutant: an empty required list is emitted
SchemaParameters_KeepEmpty(properties, required) ==
  [type |-> "object", properties |-> properties, required |-> required, additionalProperties |-> FALSE]

\* result["parameters"] at the return: required is deleted when it is empty
SchemaParameters(properties, required) ==
  IF required = <<>>
  THEN [type |-> "object", properties |-> properties, additionalProperties |-> FALSE]
  ELSE [type |-> "object", properties |-> properties, required |-> required, additionalProperties |-> FALSE]

to_dict(tool) ==
  LET items == tool.parameters
      properties == [n \in {items[i].name : i \in DOMAIN items} |->
                       ParamDict(items[CHOOSE i \in DOMAIN items : items[i].name = n].def)]
  IN [name |-> tool.name, description |-> tool.description,
      parameters |-> SchemaParameters(properties, RequiredNames(items))]

call_to_dict(tool) ==
  /\ pc = "idle"
  /\ ctx = NoCtx
  /\ outcome' = Returned(to_dict(tool))
  /\ UNCHANGED <<cls_registry, parked>>
  /\ ctx' = Called("to_dict", tool)
  /\ UNCHANGED <<self_tools, backing, pc, frame, log>>

\* tool.invoke(arguments), with the calls of the bound function counted; as
\* for to_dict, one call is followed from the initial state
call_invoke(tool, arguments) ==
  /\ pc = "idle"
  /\ ctx = NoCtx
  /\ outcome' = invoke(tool, arguments)
  /\ log' = [NoLog EXCEPT !.invoked = FunctionCalls(tool), !.request = PyDict(arguments)]
  /\ UNCHANGED <<cls_registry, parked>>
  /\ ctx' = Called("invoke", [tool |-> tool, arguments |-> arguments])
  /\ UNCHANGED <<self_tools, backing, pc, frame>>

ToolNext ==
  \/ pc = "idle" /\ ctx = NoCtx /\ \E tool \in SchemaTools : call_to_dict(tool)
  \/ pc = "idle" /\ ctx = NoCtx /\ \E tool \in Tools, arguments \in LookupArguments : call_invoke(tool, arguments)

ToolSpec == Init /\ [][ToolNext]_vars

\* ------------------------------------------ OpenAIProvider, AzureOpenAIProvider
\* The two classes have the same parse_tool_calls and _parse_response; their
\* _generate_sync differ in the messages built from tool_results.
OpenAIClasses == {"openai", "azure_openai"}

\* Bound: the longest list of tool calls in a vendor message.
MaxRaw == 2

\* function.arguments of a vendor tool call: the JSON text of an object,
\* text that is not JSON, the JSON text of an array, no value
ObjectText == "{\"key\": \"apple\"}"
ArrayText == "[1, 2]"
RawArguments == {ObjectText, "not json", ArrayText, None}

\* json.loads(s)
json_loads(s) ==
  CASE s = ObjectText -> Returned(PyDict([key |-> "apple"]))
    [] s = ArrayText -> Returned(PyList(<<[int |-> 1], [int |-> 2]>>))
    [] s = None -> Raised([type |-> "TypeError", msg |-> "the JSON object must be str, bytes or bytearray, not NoneType"])
    [] OTHER -> Raised([type |-> "JSONDecodeError", msg |-> "Expecting value: line 1 column 1 (char 0)"])

\* ToolCall(tool_name=..., arguments=..., call_id=...): arguments is declared
\* Dict[str, Any], pydantic refuses anything else
NewToolCall(tool_name, arguments, call_id) ==
  IF "dict" \in DOMAIN arguments
  THEN Returned([tool_name |-> tool_name, arguments |-> arguments.dict, call_id |-> call_id])
  ELSE Raised([type |-> "ValidationError", msg |-> "1 validation error for ToolCall"])

InvalidJson == [error |-> "Invalid JSON in arguments"]

\* the tool calls of a vendor message: type, id, function.name, function.arguments
RawCalls == [type : {"function", "custom"}, id : {"call1", "call2"},
             function : [name : {"lookup"}, arguments : RawArguments]]

\* a vendor response: no choices, or one choice whose message has content
\* and tool_calls (None when the model asked for no tool)
VendorMessages ==
  [content : {"text", None}, tool_calls : {PyNone} \cup {PyList(s) : s \in SeqUpTo(RawCalls, MaxRaw)}]
VendorResponses == {[choices |-> <<>>]} \cup {[choices |-> <<[message |-> m]>>] : m \in VendorMessages}

\* arguments of one raw call: try json.loads / except json.JSONDecodeError
ParsedArguments(raw_call) ==
  LET loaded == json_loads(raw_call.function.arguments) IN
  IF loaded.kind = "raise" /\ loaded.exc.type = "JSONDecodeError"
  THEN Returned(PyDict(InvalidJson))
  ELSE loaded

\* for raw_call in raw_tool_calls, with tool_calls collected so far; an
\* exception ends the loop (it is caught by the except of parse_tool_calls)
RECURSIVE ParseRawCalls(_, _)
ParseRawCalls(raw_tool_calls, tool_calls) ==
  IF raw_tool_calls = <<>> THEN Returned(tool_calls)
  ELSE LET raw_call == Head(raw_tool_calls) IN
       IF raw_call.type # "function" THEN ParseRawCalls(Tail(raw_tool_calls), tool_calls)
       ELSE LET arguments == ParsedArguments(raw_call) IN
            IF arguments.kind = "raise" THEN [kind |-> "raise", exc |-> arguments.exc, tool_calls |-> tool_calls]
            ELSE LET tool_call == NewToolCall(raw_call.function.name, arguments.value, raw_call.id) IN
                 IF tool_call.kind = "raise" THEN [kind |-> "raise", exc |-> tool_call.exc, tool_calls |-> tool_calls]
                 ELSE ParseRawCalls(Tail(raw_tool_calls), Append(tool_calls, tool_call.value))

\* for choice in choices
RECURSIVE ParseChoices(_, _)
ParseChoices(choices, tool_calls) ==
  IF choices = <<>> THEN Returned(tool_calls)
  ELSE LET message == Head(choices).message IN
       IF message.tool_calls = PyNone
       THEN [kind |-> "raise", exc |-> [type |-> "TypeError", msg |-> "'NoneType' object is not iterable"], tool_calls |-> tool_calls]
       ELSE LET r == ParseRawCalls(message.tool_calls.list, tool_calls) IN
            IF r.kind = "raise" THEN r ELSE ParseChoices(Tail(choices), r.value)

\* parse_tool_calls(raw_response): what was collected when the loops ended,
\* normally or by an exception
parse_tool_calls(raw_response) ==
  LET r == ParseChoices(raw_response.choices, <<>>) IN
  IF r.kind = "raise" THEN Returned(r.tool_calls) ELSE r

call_parse_tool_calls(p, raw_response) ==
  /\ pc = "idle"
  /\ ctx = NoCtx
  /\ LET r == parse_tool_calls(raw_response) IN
     outcome' = IF r.kind = "return" THEN Returned(PyList(r.value)) ELSE r
  /\ UNCHANGED <<cls_registry, parked>>
  /\ ctx' = [Called("parse_tool_calls", raw_response) EXCEPT !.provider = p]
  /\ UNCHANGED <<self_tools, backing, pc, frame, log>>

\* a content that is not text (a list of content parts)
NotText == "[{'type': 'text'}]"

\* LLMResponse(content=..., tool_calls=...): content is declared
\* Optional[str], pydantic refuses anything else
NewLLMResponse(content, tool_calls) ==
  IF content = NotText
  THEN Raised([type |-> "ValidationError", msg |-> "1 validation error for LLMResponse"])
  ELSE Returned([content |-> content, tool_calls |-> tool_calls])

\* _parse_response(raw_response): every exception is turned into a response
\* whose content reports it
openai_parse_response(raw_response) ==
  IF raw_response.choices = <<>>
  THEN Returned([content |-> "No response generated", tool_calls |-> <<>>])
  ELSE LET message == raw_response.choices[1].message
           tool_calls == parse_tool_calls(raw_response).value
           r == NewLLMResponse(message.content, tool_calls)
       IN IF r.kind = "raise"
          THEN Returned([content |-> "Error parsing response: " \o r.exc.msg, tool_calls |-> <<>>])
          ELSE r

\* what self.client.chat.completions.create(...) may do: raise an exception
\* of the SDK, or return a response with at most one tool call or with a
\* content that is not text
VendorErrors == {[type |-> "APIConnectionError", msg |-> "Connection error."],
                 [type |-> "RateLimitError", msg |-> "Rate limit reached"]}
ShortMessages ==
  {m \in VendorMessages : m.tool_calls = PyNone \/ Len(m.tool_calls.list) <= 1}
  \cup {[content |-> NotText, tool_calls |-> PyNone]}
VendorAnswers == {[choices |-> <<>>]} \cup {[choices |-> <<[message |-> m]>>] : m \in ShortMessages}

\* results: None, or a dict given by its items in insertion order
SentResults == {[int |-> 3], [error |-> "boom", success |-> FALSE]}
ResultItems == [key : {"call1", "lookup"}, value : SentResults]
DistinctKeys(items) == \A i, j \in DOMAIN items : items[i].key = items[j].key => i = j
ToolResultsArgs == {PyNone} \cup {[items |-> s] : s \in {s \in SeqUpTo(ResultItems, 2) : DistinctKeys(s)}}

\* tools: None, an empty list, a list of one Tool
PaintTool == [name |-> "paint", description |-> "paints", function |-> None,
              parameters |-> <<[name |-> "color", def |-> [dict |-> RawMapping(TRUE, ColorEnum, FALSE, PyNone)]]>>]
GenerateTools == {PyNone, PyList(<<>>), PyList(<<PaintTool>>)}

\* json.dumps(result) for the results of the universe
json_dumps(v) ==
  IF "int" \in DOMAIN v THEN "3"
  ELSE "{\"error\": \"" \o v.error \o "\", \"success\": false}"

\* the message appended for one item of results: OpenAIProvider gives
\* it the role assistant (openai.py:123-127), AzureOpenAIProvider the role
\* tool (azure_openai.py:116-120)
ToolResultMessage(p, item) ==
  [role |-> IF p = "openai" THEN "assistant" ELSE "tool",
   tool_call_id |-> item.key,
   content |-> json_dumps(item.value)]

\* messages: the user prompt, then one message per item of results
Messages(p, results) ==
  <<[role |-> "user", content |-> "prompt"]>>
  \o (IF results = PyNone THEN <<>>
      ELSE [i \in DOMAIN results.items |-> ToolResultMessage(p, results.items[i])])

\* format_tools_for_provider(tools)
format_tools_for_provider(tool_list) == [i \in DOMAIN tool_list |-> [type |-> "function", function |-> to_dict(tool_list[i])]]

\* request_params, without the sampling parameters
RequestParams(p, tool_list, results) ==
  IF tool_list = PyNone \/ tool_list = PyList(<<>>)
  THEN [messages |-> Messages(p, results)]
  ELSE [messages |-> Messages(p, results), tools |-> format_tools_for_provider(tool_list.list), tool_choice |-> "auto"]

\* raise Exception(f"OpenAI API request failed: {str(e)}") in the except
\* block: e is the __context__ of the new exception
RequestFailed(p, e) ==
  [type |-> "Exception",
   msg |-> (IF p = "openai" THEN "OpenAI" ELSE "Azure OpenAI") \o " API request failed: " \o e.msg,
   context |-> e]

\* _generate_sync(prompt, tools, tool_results), with what the vendor does
generate_sync(p, tool_list, results, vendor) ==
  IF vendor \in VendorErrors
  THEN Raised(RequestFailed(p, vendor))
  ELSE openai_parse_response(vendor)

call_generate_sync(p, tool_list, results, vendor) ==
  /\ pc = "idle"
  /\ ctx = NoCtx
  /\ outcome' = generate_sync(p, tool_list, results, vendor)
  /\ log' = [NoLog EXCEPT !.request = RequestParams(p, tool_list, results)]
  /\ UNCHANGED <<cls_registry, parked>>
  /\ ctx' = [Called("_generate_sync", [tools |-> tool_list, tool_results |-> results, vendor |-> vendor])
               EXCEPT !.provider = p]
  /\ UNCHANGED <<self_tools, backing, pc, frame>>

ProviderNext ==
  \/ pc = "idle" /\ ctx = NoCtx /\ \E p \in OpenAIClasses, raw \in VendorResponses : call_parse_tool_calls(p, raw)
  \/ pc = "idle" /\ ctx = NoCtx /\ \E p \in OpenAIClasses, tool_list \in GenerateTools, results \in ToolResultsArgs, vendor \in VendorErrors \cup VendorAnswers :
       call_generate_sync(p, tool_list, results, vendor)

ProviderSpec == Init /\ [][ProviderNext]_vars

\* ------------------------------------------------------------ AdapterRegistry
\* provider names, adapter classes and provider instances given to the
\* class methods of AdapterRegistry
ProviderNames == {"openai", "azure_openai", "gemini"}
AdapterClasses == {[class |-> "OpenAIAdapter"], [class |-> "GeminiAdapter"]}
ProviderInstances == {[provider |-> "provider1"], [provider |-> "provider2"]}

\* mutant: a second registration replaces the first
register_call_Replace(provider_name, adapter_class) ==
  /\ pc = "idle"
  /\ cls_registry' = DictSet(cls_registry, provider_name, adapter_class)
  /\ outcome' = Returned(PyNone)
  /\ UNCHANGED <<parked, self_tools, backing, pc, frame, log>>

\* AdapterRegistry.register(provider_name, adapter_class)
register_call(provider_name, adapter_class) ==
  /\ pc = "idle"
  /\ IF provider_name \in DOMAIN cls_registry
     THEN /\ outcome' = Raised([type |-> "ValueError",
                                msg |-> "Adapter for provider '" \o provider_name \o "' is already registered"])
          /\ UNCHANGED cls_registry
     ELSE /\ cls_registry' = DictSet(cls_registry, provider_name, adapter_class)
          /\ outcome' = Returned(PyNone)
  /\ UNCHANGED <<parked, self_tools, backing, pc, frame, log>>

\* AdapterRegistry.get_adapter_class(provider_name)
get_adapter_class(provider_name) ==
  IF provider_name \notin DOMAIN cls_registry
  THEN Raised([type |-> "KeyError", msg |-> "No adapter registered for provider '" \o provider_name \o "'"])
  ELSE Returned(cls_registry[provider_name])

\* adapter_class(provider): the instance made
NewAdapter(adapter_class, provider) == [instance_of |-> adapter_class, provider |-> provider]

get_adapter_class_call(provider_name) ==
  /\ pc = "idle"
  /\ outcome' = get_adapter_class(provider_name)
  /\ UNCHANGED <<cls_registry, parked, self_tools, backing, pc, frame, log>>

\* AdapterRegistry.create_adapter(provider_name, provider); log.request
\* records the call of the adapter class
create_adapter_call(provider_name, provider) ==
  /\ pc = "idle"
  /\ LET adapter_class == get_adapter_class(provider_name) IN
     IF adapter_class.kind = "raise"
     THEN /\ outcome' = adapter_class
          /\ log' = NoLog
     ELSE /\ outcome' = Returned(NewAdapter(adapter_class.value, provider))
          /\ log' = [NoLog EXCEPT !.request = [adapter_class |-> adapter_class.value, provider |-> provider]]
  /\ UNCHANGED <<cls_registry, parked, self_tools, backing, pc, frame>>

call_register(provider_name, adapter_class) ==
  /\ register_call(provider_name, adapter_class)
  /\ ctx' = Called("register", [provider_name |-> provider_name, adapter_class |-> adapter_class])

call_get_adapter_class(provider_name) ==
  /\ get_adapter_class_call(provider_name)
  /\ ctx' = Called("get_adapter_class", [provider_name |-> provider_name])

call_create_adapter(provider_name, provider) ==
  /\ create_adapter_call(provider_name, provider)
  /\ ctx' = Called("create_adapter", [provider_name |-> provider_name, provider |-> provider])

AdapterRegistryNext ==
  \/ \E n \in ProviderNames, c \in AdapterClasses : call_register(n, c)
  \/ \E n \in ProviderNames : call_get_adapter_class(n)
  \/ \E n \in ProviderNames, p \in ProviderInstances : call_create_adapter(n, p)

AdapterRegistrySpec == Init /\ [][AdapterRegistryNext]_vars

\* ------------------------------------------------ the two ToolBridge classes
\* The repository has two ToolBridge classes with a raw-Provider loop:
\* llm_toolbridge.core.bridge.ToolBridge (its _execute_with_provider, above)
\* and the older src.core.bridge.ToolBridge, whose execute holds the same loop
\* and takes no extra options.  Here backing is "provider" for the first and
\* "core_provider" for the second, and ctx.args holds the prompt and the extra
\* options of the execute call in hand.
Prompts == {"hello", "weather?"}
NoOptions == PyDict(EmptyDict)
Options == {NoOptions, PyDict([temperature |-> "0.2"])}
CoreBridge == backing = "core_provider"

\* mutant: the older loop passes tools=[] on a follow-up
CoreRequest_Empty ==
  IF pc = "generate"
  THEN [tools |-> PyList(tools), tool_results |-> PyNone]
  ELSE [tools |-> PyList(<<>>), tool_results |-> PyDict(tool_results)]

\* src.core.bridge.ToolBridge.execute: the initial call, and the follow-up,
\* which passes tools=resolved_tools again
CoreRequest ==
  IF pc = "generate"
  THEN [tools |-> PyList(tools), tool_results |-> PyNone]
  ELSE [tools |-> PyList(tools), tool_results |-> PyDict(tool_results)]

\* all the arguments of the provider.generate call that is due
GenerateArguments ==
  LET r == IF CoreBridge THEN CoreRequest ELSE ProviderRequest IN
  [prompt |-> ctx.args.prompt, tools |-> r.tools, tool_results |-> r.tool_results,
   kwargs |-> IF CoreBridge THEN NoOptions ELSE ctx.args.kwargs]

LegacyInit ==
  /\ Init!1 /\ Init!2 /\ Init!4 /\ Init!5 /\ Init!6 /\ Init!7 /\ Init!8
  /\ Init!9 /\ Init!10 /\ Init!11 /\ Init!12 /\ Init!13 /\ Init!14 /\ Init!15
  /\ backing \in {"provider", "core_provider"}

\* await bridge.execute(prompt, tools_arg, m, **options)
legacy_execute(prompt, options, tools_arg, m) ==
  /\ CoreBridge => options = NoOptions
  /\ execute_call(tools_arg, m)
  /\ ctx' = Called("execute", [prompt |-> prompt, kwargs |-> options])
  /\ UNCHANGED <<cls_registry, parked>>

\* response = await provider.generate(...)
legacy_generate == generate_with(GenerateArguments) /\ UNCHANGED <<ctx, cls_registry, parked>>

LegacyNext ==
  \/ \E t \in Tools : register_tool(t)
  \/ \E prompt \in Prompts, options \in Options, a \in ToolsArgs, m \in 0 .. MaxCap :
       legacy_execute(prompt, options, a, m)
  \/ legacy_generate
  \/ provider_tool_step

LegacySpec == LegacyInit /\ [][LegacyNext]_vars

\* ------------------------------------- two invocations on one ToolBridge
\* A second execute call is made on the same ToolBridge (and so on the same
\* Adapter or Provider) while the first is outstanding: as another task of
\* the event loop, or from another thread.  The variables pc .. outcome are
\* the local variables of the invocation that runs; parked holds those of the
\* other one.  self_tools belongs to the ToolBridge and is shared, and tools
\* can be registered while invocations are outstanding.
Frame ==
  [pc |-> pc, tools |-> tools, max_tool_calls |-> max_tool_calls, tools_dict |-> tools_dict,
   tool_results |-> tool_results, response |-> response, idx |-> idx, call_count |-> call_count,
   outcome |-> outcome]
InFlight == pc \notin {"idle", "done"}
\* where the invocation that runs is left for the other one: before a request
\* to the provider, or when it has ended
SwitchPoints == {"prepare1", "generate", "prepare2", "generate_followup", "done"}

\* the tool calls and responses of the collaborators, and the tools and
\* max_tool_calls arguments of the callers
SharedCalls ==
  {[tool_name |-> "lookup", arguments |-> [key |-> "apple"], call_id |-> None],
   [tool_name |-> "lookup", arguments |-> [key |-> "pear"], call_id |-> None],
   [tool_name |-> "unbound", arguments |-> NoArguments, call_id |-> "call1"]}
SharedResponses == {FinalResponse} \cup {[content |-> None, tool_calls |-> <<c>>] : c \in SharedCalls}
SharedArgs == {PyNone, PyList(<<>>), PyList(<<[tool |-> LookupTool]>>), PyList(<<[str |-> "unbound"]>>)}
SharedCaps == {1}

\* mutant: the tool-results map is an attribute of the ToolBridge / Adapter
\* and the two invocations use the same one
switch_SharedResults ==
  /\ parked # NoFrame
  /\ pc \in SwitchPoints
  /\ parked.pc # "done"
  /\ parked' = Frame
  /\ pc' = parked.pc
  /\ tools' = parked.tools
  /\ max_tool_calls' = parked.max_tool_calls
  /\ tools_dict' = parked.tools_dict
  /\ response' = parked.response
  /\ idx' = parked.idx
  /\ call_count' = parked.call_count
  /\ outcome' = parked.outcome
  /\ UNCHANGED <<tool_results, self_tools, backing, log, ctx, cls_registry>>

\* the second caller arrives when the first invocation has ended, or while it
\* is outstanding with tool results collected and its follow-up due: the first
\* is set aside, and the caller is about to make its call
second_call ==
  /\ pc \in {"prepare2", "generate_followup", "done"}
  /\ parked = NoFrame
  /\ parked' = Frame
  /\ pc' = "idle"
  /\ tools' = <<>>
  /\ max_tool_calls' = 0
  /\ tools_dict' = EmptyDict
  /\ tool_results' = EmptyDict
  /\ response' = PyNone
  /\ idx' = 0
  /\ call_count' = 0
  /\ outcome' = Pending
  /\ UNCHANGED <<self_tools, backing, log, ctx, cls_registry>>

\* the other invocation goes on: each invocation has its own local variables
switch ==
  /\ parked # NoFrame
  /\ pc \in SwitchPoints
  /\ parked.pc # "done"
  /\ parked' = Frame
  /\ pc' = parked.pc
  /\ tools' = parked.tools
  /\ max_tool_calls' = parked.max_tool_calls
  /\ tools_dict' = parked.tools_dict
  /\ tool_results' = parked.tool_results
  /\ response' = parked.response
  /\ idx' = parked.idx
  /\ call_count' = parked.call_count
  /\ outcome' = parked.outcome
  /\ UNCHANGED <<self_tools, backing, log, ctx, cls_registry>>

\* bridge.register_tool(tool) by another task or thread while an invocation
\* is outstanding; what it returns or raises goes to that caller
register_in_flight(tool) ==
  /\ InFlight
  /\ self_tools' = IF IsRegistered(tool.name) THEN self_tools ELSE Append(self_tools, tool)
  /\ UNCHANGED <<backing, pc, frame, outcome, log, ctx, cls_registry, parked>>

\* the collaborators do not fail, and answer from SharedResponses
shared_prepare_request == prepare_request /\ log'.raised = PyNone
shared_execute_request == execute_request /\ log'.raised = PyNone
shared_parse_response == parse_response /\ log'.raised = PyNone /\ log'.parsed \in SharedResponses
shared_generate == generate /\ log'.raised = PyNone /\ log'.parsed \in SharedResponses

SharedNext ==
  \/ \E t \in Tools : register_tool(t)
  \/ \E t \in Tools : register_in_flight(t)
  \/ \E ts \in Batches : register_tools_call(ts) /\ UNCHANGED <<ctx, cls_registry, parked>>
  \/ \E n \in ToolNames : get_tool_call(n) /\ UNCHANGED <<ctx, cls_registry, parked>>
  \/ \E a \in SharedArgs : resolve_tools_call(a) /\ UNCHANGED <<ctx, cls_registry, parked>>
  \/ \E a \in SharedArgs, m \in SharedCaps : execute(a, m)
  \/ \E a \in SharedArgs, m \in SharedCaps : execute_sync(a, m)
  \/ second_call
  \/ switch
  \/ shared_prepare_request
  \/ shared_execute_request
  \/ shared_parse_response
  \/ adapter_tool_step
  \/ shared_generate
  \/ provider_tool_step

SharedSpec == Init /\ [][SharedNext]_vars

\* ====================================================================== claims
AdapterBacked == backing = "adapter"
ProviderBacked == backing = "provider"
Finished == pc = "done"
ReturnedNormally == pc = "done" /\ outcome.kind = "return"

\* the key under which the result of a tool call is to be stored
KeyOf(tool_call) == IF tool_call.call_id = None THEN tool_call.tool_name ELSE tool_call.call_id

\* Adapter loop, while the first response is still in llm_response: the calls
\* of it that are processed
Processed == SubSeq(response.tool_calls, 1, Min(max_tool_calls, Len(response.tool_calls)))
\* the supplied tool of a call returns normally
ToolReturns(tool_call) ==
  /\ \E i \in DOMAIN tools : tools[i].name = tool_call.tool_name
  /\ invoke(tools_dict[tool_call.tool_name], tool_call.arguments).kind = "return"
ToolValue(tool_call) == invoke(tools_dict[tool_call.tool_name], tool_call.arguments).value
\* the second request has been prepared and its response not yet parsed
SecondRequestOut == AdapterBacked /\ pc \in {"execute2", "parse2"}
SecondRoundResults == log.request.tool_results.dict

\* C1, rounds: a run that returns after a first response with tool calls made
\* exactly two rounds and returns the response parsed in the second
C1_Rounds ==
  AdapterBacked /\ ReturnedNormally =>
    /\ log.parse = 1 => log.parsed.tool_calls = <<>>
    /\ log.parse # 1 => /\ log.prepare = 2 /\ log.execute = 2 /\ log.parse = 2
                        /\ outcome.value = log.parsed

\* C1 as stated: execute_with_tools, first response with tool calls: two
\* rounds, the second round's tool_results maps the key of EVERY processed call
\* whose tool returned normally to {result: value, success: true}, and the
\* second parsed response is returned.
C1_AsStated ==
  /\ C1_Rounds
  /\ SecondRequestOut =>
       \A i \in DOMAIN Processed :
         ToolReturns(Processed[i]) =>
           /\ KeyOf(Processed[i]) \in DOMAIN SecondRoundResults
           /\ SecondRoundResults[KeyOf(Processed[i])] = [result |-> ToolValue(Processed[i]), success |-> TRUE]

\* C1 amended: as C1, for every processed call whose tool returned normally
\* and whose key no later processed call has (a later call with the same key
\* overwrites the entry).
C1_TwoRounds ==
  /\ C1_Rounds
  /\ SecondRequestOut =>
       \A i \in DOMAIN Processed :
         /\ ToolReturns(Processed[i])
         /\ \A j \in DOMAIN Processed : j > i => KeyOf(Processed[j]) # KeyOf(Processed[i])
         => /\ KeyOf(Processed[i]) \in DOMAIN SecondRoundResults
            /\ SecondRoundResults[KeyOf(Processed[i])] = [result |-> ToolValue(Processed[i]), success |-> TRUE]

\* a two-round run has returned, and its second request carried a successful
\* result stored under a call id
C1_Witness ==
  /\ AdapterBacked /\ ReturnedNormally /\ log.parse = 2
  /\ "call1" \in DOMAIN tool_results
  /\ tool_results["call1"] = [result |-> [int |-> 3], success |-> TRUE]
  /\ log.request.tool_results = PyDict(tool_results)

\* C2: execute_with_tools, first parsed response without tool calls: exactly
\* one prepare_request -> execute_request -> parse_response round, no tool
\* processed or invoked, and that response is what is returned.
C2_OneRound ==
  (AdapterBacked /\ log.parse = 1 /\ log.raised = PyNone /\ log.parsed.tool_calls = <<>>) =>
    /\ pc = "done"
    /\ outcome = Returned(log.parsed)
    /\ log.prepare = 1 /\ log.execute = 1
    /\ log.processed = 0 /\ log.invoked = 0

C2_Witness ==
  /\ AdapterBacked /\ ReturnedNormally /\ log.parse = 1
  /\ outcome.value = FinalResponse
  /\ tools # <<>>

\* C3: execute_with_tools makes at most two rounds whatever the collaborators
\* do; the first request offers the tools and has no tool results, the
\* follow-up has tools=None and the collected tool results; the follow-up
\* response is returned as it is and none of its tool calls is processed.
C3_AtMostTwoRounds ==
  AdapterBacked =>
    /\ log.prepare <= 2 /\ log.execute <= 2 /\ log.parse <= 2
    /\ log.prepare = 1 => log.request = [tools |-> PyList(tools), tool_results |-> PyNone]
    /\ log.prepare = 2 => /\ log.request = [tools |-> PyNone, tool_results |-> PyDict(tool_results)]
                          /\ tool_results # EmptyDict
    /\ (log.parse = 2 /\ log.raised = PyNone) =>
         /\ pc = "done"
         /\ outcome = Returned(log.parsed)
         /\ log.processed = idx /\ idx <= max_tool_calls /\ log.invoked <= log.processed

\* the follow-up response carried a tool call and was returned
C3_Witness ==
  /\ AdapterBacked /\ ReturnedNormally /\ log.parse = 2
  /\ outcome.value.tool_calls # <<>>

\* C4: raw-Provider loop with max_tool_calls = N >= 1: generate is called at
\* most N + 1 times; a run that returns a response with tool calls made
\* exactly N follow-ups (every response asked for tools), and returns the
\* last response as it is.
C4_RoundCap ==
  (ProviderBacked /\ pc # "idle" /\ log.delegated = 0 /\ max_tool_calls >= 1) =>
    /\ log.generate <= max_tool_calls + 1
    /\ (ReturnedNormally /\ outcome.value.tool_calls # <<>>) =>
         /\ log.generate = max_tool_calls + 1
         /\ call_count = max_tool_calls
         /\ outcome.value = log.parsed
    /\ (ReturnedNormally /\ log.generate < max_tool_calls + 1) => outcome.value.tool_calls = <<>>

C4_Witness ==
  /\ ProviderBacked /\ ReturnedNormally
  /\ max_tool_calls = 2 /\ log.generate = 3
  /\ outcome.value.tool_calls # <<>>

\* ---------------------------------------------------------------- C5
\* Every collaborator call returns or raises: a step that is due is taken.
Step == prepare_request \/ execute_request \/ parse_response \/ adapter_tool_step \/ generate \/ provider_tool_step
FairSpec == Spec /\ WF_vars(Step)

\* C5: every execute / execute_with_tools invocation that has started
\* finishes (returns or raises), whatever the provider answers.
C5_Terminates == [](pc # "idle" => <>(pc = "done"))

\* the provider asked for tools in every response and the run ended at the cap
C5_Witness ==
  /\ ProviderBacked /\ Finished /\ call_count = MaxCap
  /\ outcome.kind = "return" /\ outcome.value.tool_calls # <<>>
  /\ log.processed >= MaxCap

\* ---------------------------------------------------------------- C6
\* the tool calls of the round in hand, and the request that follows them
RoundCalls == IF AdapterBacked THEN Processed ELSE response.tool_calls
FollowUpDue == (AdapterBacked /\ pc = "prepare2") \/ (ProviderBacked /\ pc = "generate_followup")
FollowUpRequest == IF AdapterBacked THEN AdapterRequest ELSE ProviderRequest
\* the tool that the loop finds for a call: among the supplied tools
\* (adapter) or in the registry (raw provider)
Found(tool_call) ==
  IF AdapterBacked THEN \E i \in DOMAIN tools : tools[i].name = tool_call.tool_name
  ELSE \E i \in DOMAIN self_tools : self_tools[i].name = tool_call.tool_name
FoundTool(tool_call) ==
  IF AdapterBacked
  THEN tools[CHOOSE i \in DOMAIN tools : tools[i].name = tool_call.tool_name /\ \A j \in DOMAIN tools : tools[j].name = tool_call.tool_name => j <= i]
  ELSE self_tools[CHOOSE i \in DOMAIN self_tools : self_tools[i].name = tool_call.tool_name]
\* the tool of the call has no function, or its function raises
ToolFails(tool_call) == Found(tool_call) /\ invoke(FoundTool(tool_call), tool_call.arguments).kind = "raise"
IsErrorResult(v) == DOMAIN v = {"error", "success"} /\ v.success = FALSE /\ v.error # ""
LaterSameKey(calls, i) == \E j \in DOMAIN calls : j > i /\ KeyOf(calls[j]) = KeyOf(calls[i])

\* tool failures never end the run: during and after the tool loop nothing
\* has been raised, and a run that raised after its first request did so
\* because a collaborator raised
C6_NoRaise ==
  /\ pc \in {"tools", "invoke", "prepare2", "generate_followup"} => outcome = Pending
  /\ (Finished /\ outcome.kind = "raise" /\ log.prepare + log.generate > 0) => log.raised # PyNone
\* when the follow-up is due every call of the round has been processed
C6_AllProcessed ==
  FollowUpDue =>
    /\ RoundCalls # <<>>
    /\ \A i \in DOMAIN RoundCalls : KeyOf(RoundCalls[i]) \in DOMAIN tool_results
    /\ AdapterBacked => log.processed = Len(RoundCalls)
    /\ ProviderBacked => idx = Len(RoundCalls)
    /\ FollowUpRequest.tool_results = PyDict(tool_results)

\* C6 as stated: a tool that raises or has no function never makes the run
\* raise; its failure is in the tool results with success false and an error
\* message, the other calls of the round are processed, and the follow-up
\* request carries that error result.
C6_AsStated ==
  /\ C6_NoRaise
  /\ C6_AllProcessed
  /\ FollowUpDue =>
       \A i \in DOMAIN RoundCalls :
         ToolFails(RoundCalls[i]) => IsErrorResult(FollowUpRequest.tool_results.dict[KeyOf(RoundCalls[i])])

\* C6 amended: the follow-up request carries that error result unless a later
\* call of the same round has the same key (its result replaces the entry).
C6_ToolErrorContained ==
  /\ C6_NoRaise
  /\ C6_AllProcessed
  /\ FollowUpDue =>
       \A i \in DOMAIN RoundCalls :
         (ToolFails(RoundCalls[i]) /\ ~LaterSameKey(RoundCalls, i))
           => IsErrorResult(FollowUpRequest.tool_results.dict[KeyOf(RoundCalls[i])])

\* raw-provider loop: the first call of the round failed, the second call
\* was still processed and succeeded, and the follow-up is due
C6_Witness ==
  /\ ProviderBacked /\ pc = "generate_followup"
  /\ Len(response.tool_calls) = 2
  /\ ToolFails(response.tool_calls[1])
  /\ IsErrorResult(tool_results[KeyOf(response.tool_calls[1])])
  /\ tool_results[KeyOf(response.tool_calls[2])] = [int |-> 3]

\* ---------------------------------------------------------------- C7
\* Adapter loop: the position of the call processed last
LastProcessed == IF pc = "tools" THEN idx - 1 ELSE idx
AfterAdapterToolStep == AdapterBacked /\ ((pc = "tools" /\ idx > 1) \/ pc = "prepare2")
StrOf(e) == IF e.type = "KeyError" THEN "'" \o e.msg \o "'" ELSE e.msg

\* C7 as stated: whatever exception the bound function of a found tool
\* raises, KeyError included, process_tool_call returns {error: str(e),
\* success: false}; 'not found' is returned only for a name that is absent.
C7_AsStated ==
  AfterAdapterToolStep =>
    LET tool_call == Processed[LastProcessed]
        stored == tool_results[KeyOf(tool_call)]
    IN /\ (Found(tool_call) /\ FoundTool(tool_call).function # None /\ ToolFails(tool_call))
            => stored = [error |-> StrOf(invoke(FoundTool(tool_call), tool_call.arguments).exc), success |-> FALSE]
       /\ stored = [error |-> "Tool '" \o tool_call.tool_name \o "' not found", success |-> FALSE]
            => ~Found(tool_call)

\* ---------------------------------------------------------------- C8
NotFoundExpected(tool_call) == [error |-> "Tool '" \o tool_call.tool_name \o "' not found", success |-> FALSE]
\* process_tool_call on a name that is not among the supplied tools
C8_NotFoundResult ==
  AdapterBacked =>
    \A tc \in ToolCalls :
      tc.tool_name \notin DOMAIN tools_dict => process_tool_call(tc, tools_dict) = NotFoundExpected(tc)

C9_OneErrorType ==
  AdapterBacked =>
    /\ log.raised # PyNone =>
         /\ pc = "done"
         /\ outcome = Raised([type |-> "RuntimeError", msg |-> "Tool execution failed: " \o log.raised.msg, cause |-> log.raised])
    /\ (log.delegated = 1 /\ max_tool_calls >= 1 /\ outcome.kind = "raise") =>
         /\ log.raised # PyNone
         /\ outcome.exc.type = "RuntimeError"
         /\ outcome.exc.cause = log.raised

\* parse_response raised in the second round
C9_Witness ==
  /\ AdapterBacked /\ Finished /\ outcome.kind = "raise"
  /\ log.parse = 2 /\ log.raised = [type |-> "ConnectionError", msg |-> "down"]
  /\ outcome.exc.cause = log.raised

\* ---------------------------------------------------------------- C10
\* C10: execute_with_tools with max_tool_calls < 1 raises ValueError, not
\* wrapped, before any request is prepared or executed and before any tool
\* is invoked.
C10_Validation ==
  (AdapterBacked /\ log.delegated = 1 /\ max_tool_calls < 1) =>
    /\ pc = "done"
    /\ outcome = Raised([type |-> "ValueError", msg |-> "max_tool_calls must be at least 1"])
    /\ log.prepare = 0 /\ log.execute = 0 /\ log.parse = 0
    /\ log.processed = 0 /\ log.invoked = 0

C10_Witness ==
  /\ AdapterBacked /\ log.delegated = 1 /\ max_tool_calls = 0
  /\ outcome.kind = "raise" /\ outcome.exc.type = "ValueError"
  /\ self_tools # <<>>

\* ---------------------------------------------------------------- C11
Started == pc # "idle"
\* the invocation ended in _resolve_tools: KeyError of get_tool, or TypeError
ResolutionFailed == Finished /\ outcome.kind = "raise" /\ outcome.exc.type \in {"KeyError", "TypeError"}

\* C11 as stated: with either backing, an invocation given max_tool_calls < 1
\* makes no provider request (no generate, prepare_request or execute_request
\* call) and ends with a configuration error (ValueError).
C11_AsStated ==
  (Started /\ ~ResolutionFailed /\ max_tool_calls < 1) =>
    /\ log.generate = 0 /\ log.prepare = 0 /\ log.execute = 0
    /\ Finished => (outcome.kind = "raise" /\ outcome.exc.type = "ValueError")

\* ---------------------------------------------------------------- C12
\* C12 as stated: with either backing, one invocation invokes no more than
\* max_tool_calls tools (calls of a tool's bound function).
C12_AsStated ==
  Started => log.invoked <= max_tool_calls

\* ---------------------------------------------------------------- C13
NamePresent(name) == \E i \in DOMAIN self_tools : self_tools[i].name = name
AlreadyRegistered(name) == Raised([type |-> "ValueError", msg |-> "Tool with name '" \o name \o "' is already registered"])
\* every entry of the registry is still there, in its place, with its Tool
EntriesKept == \A i \in DOMAIN self_tools : i \in DOMAIN self_tools' /\ self_tools'[i] = self_tools[i]

\* C13: whatever register_tool / register_tools calls came before, a
\* register_tool call with a name that is present raises ValueError and
\* leaves the registry as it is; no call of a registry method removes or
\* replaces an entry, and a name is never present twice.
C13_DuplicateRefused ==
  [][/\ \A t \in RegistryTools :
          (call_register_tool(t) /\ NamePresent(t.name)) =>
             (self_tools' = self_tools /\ outcome' = AlreadyRegistered(t.name))
     /\ EntriesKept
     /\ \A i, j \in DOMAIN self_tools' : self_tools'[i].name = self_tools'[j].name => i = j]_vars

\* lookup was registered with one Tool object; registering another Tool
\* object of that name failed and the first one is still there
C13_Witness ==
  /\ ctx.entry = "register_tool" /\ ctx.args = [tool |-> LookupTool]
  /\ self_tools = <<ShadowTool>>
  /\ outcome = AlreadyRegistered("lookup")

\* ---------------------------------------------------------------- C14
\* item k of ts has a name that is present, or that an earlier item has
Duplicate(ts, k) == NamePresent(ts[k].name) \/ \E j \in 1 .. k - 1 : ts[j].name = ts[k].name
FirstDuplicate(ts) == CHOOSE k \in DOMAIN ts : Duplicate(ts, k) /\ \A j \in 1 .. k - 1 : ~Duplicate(ts, j)

\* C14: register_tools(ts) registers the items in list order; at the first
\* item k whose name is present already it raises ValueError, the items
\* before k are registered, item k and the later ones are not; without such
\* an item all are registered.
C14_PartialRegistration ==
  [][\A ts \in Batches :
       call_register_tools(ts) =>
         IF \E k \in DOMAIN ts : Duplicate(ts, k)
         THEN /\ self_tools' = self_tools \o SubSeq(ts, 1, FirstDuplicate(ts) - 1)
              /\ outcome' = AlreadyRegistered(ts[FirstDuplicate(ts)].name)
         ELSE /\ self_tools' = self_tools \o ts
              /\ outcome' = Returned(PyNone)]_vars

\* register_tools([unbound, lookup]) on a registry that holds lookup: unbound
\* was registered, then the call failed at lookup
C14_Witness ==
  /\ ctx.entry = "register_tools" /\ ctx.args = PyList(<<UnboundTool, LookupTool>>)
  /\ self_tools = <<ShadowTool, UnboundTool>>
  /\ outcome = AlreadyRegistered("lookup")

\* ---------------------------------------------------------------- C15
RefResolves(ref) == "tool" \in DOMAIN ref \/ ("str" \in DOMAIN ref /\ NamePresent(ref.str))
RegisteredTool(name) == self_tools[CHOOSE i \in DOMAIN self_tools : self_tools[i].name = name]
\* what the claim says _resolve_tools(a) gives: the list, or the type of the error
ExpectedResolve(a) ==
  IF a = PyNone THEN [kind |-> "return", value |-> self_tools]
  ELSE LET refs == a.list
           bad == {k \in DOMAIN refs : ~RefResolves(refs[k])}
       IN IF bad = {}
          THEN [kind |-> "return",
                value |-> [k \in DOMAIN refs |-> IF "tool" \in DOMAIN refs[k] THEN refs[k].tool ELSE RegisteredTool(refs[k].str)]]
          ELSE LET k == CHOOSE k \in bad : \A j \in bad : k <= j
               IN [kind |-> "raise", type |-> IF "str" \in DOMAIN refs[k] THEN "KeyError" ELSE "TypeError"]
AsExpected(r, e) ==
  /\ r.kind = e.kind
  /\ r.kind = "return" => r.value = e.value
  /\ r.kind = "raise" => r.exc.type = e.type

\* C15: _resolve_tools(None) is the registered tools in registration order;
\* for a list it is, element by element, the Tool itself or the registered
\* Tool of the name; an unregistered name gives KeyError and an element that
\* is neither a Tool nor a string gives TypeError.
C15_Resolve ==
  /\ \A a \in ResolveArgs : AsExpected(resolve_tools(a), ExpectedResolve(a))
  /\ ctx.entry = "_resolve_tools" =>
       /\ outcome.kind = ExpectedResolve(ctx.args).kind
       /\ outcome.kind = "return" => outcome.value = PyList(ExpectedResolve(ctx.args).value)
       /\ outcome.kind = "raise" => outcome.exc.type = ExpectedResolve(ctx.args).type

\* a name and a Tool object: the name gives the registered Tool, the object
\* gives itself although it is not registered
C15_Witness ==
  /\ ctx.entry = "_resolve_tools"
  /\ ctx.args = PyList(<<[str |-> "lookup"], [tool |-> UnboundTool]>>)
  /\ self_tools = <<ShadowTool>>
  /\ outcome = Returned(PyList(<<ShadowTool, UnboundTool>>))


\* ---------------------------------------------------------------- C16
\* the tools argument holds a name that is not registered, or an element that
\* is neither a Tool nor a string
ResolveFails(a) == a # PyNone /\ \E k \in DOMAIN a.list : ~RefResolves(a.list[k])

\* C16: when the resolution of the tools fails in execute or execute_sync, the
\* call ends at once with the KeyError or TypeError of the resolution, and no
\* adapter method, no provider method and no tool has been called, with
\* either backing.
C16_ResolutionFailsFast ==
  [][\A a \in ToolsArgs, m \in 0 .. MaxCap :
       ((execute(a, m) \/ execute_sync(a, m)) /\ ResolveFails(a)) =>
         /\ pc' = "done"
         /\ outcome'.kind = "raise"
         /\ outcome'.exc.type = ExpectedResolve(a).type
         /\ log' = NoLog]_vars

\* an adapter-backed call given an element of the wrong type has ended with
\* TypeError and nothing was called
C16_Witness ==
  /\ AdapterBacked
  /\ Finished
  /\ outcome = Raised([type |-> "TypeError", msg |-> "Expected Tool or str, got int"])
  /\ log = NoLog


\* ---------------------------------------------------------------- C17
\* what Adapter.execute_with_tools leaves for its caller: the response parsed
\* last, the wrapped error of a collaborator, or the ValueError of its
\* validation
AdapterOutcome ==
  IF log.raised # PyNone THEN Raised(ToolExecutionFailed(log.raised))
  ELSE IF log.parsed # PyNone THEN Returned(log.parsed)
  ELSE Raised([type |-> "ValueError", msg |-> "max_tool_calls must be at least 1"])

RoundTripOutstanding == ProviderBacked /\ ctx.entry = "execute" /\ ctx.io # "none"

\* C19: while a provider round-trip of execute is outstanding, the task is
\* suspended (the event loop is free to run its other tasks) and the
\* round-trip is not worked on by the task itself, with each of the shipped
\* providers.
C19_AsStated ==
  RoundTripOutstanding => (ctx.task = "awaiting" /\ ctx.io = "worker")


\* ---------------------------------------------------------------- C20
\* execute of an adapter-backed ToolBridge has handed the call to
\* Adapter.execute_with_tools
Offloaded == AdapterBacked /\ ctx.entry = "execute" /\ log.delegated = 1

\* C20: from the hand-over of an adapter-backed execute on, the task never
\* holds the thread of the event loop while execute_with_tools runs: it is
\* suspended with the work on a worker, every collaborator call and tool
\* invocation happens while it is suspended, another task of the loop can be
\* run at any such moment, and the task is resumed only when
\* execute_with_tools has ended, with what it returned or raised.
C20_Offloaded ==
  [][/\ (Offloaded /\ ctx.task = "awaiting" /\ ~ctx.others) => ENABLED other_task
     /\ Offloaded' =>
          /\ ctx'.task \in {"awaiting", "finished"}
          /\ ctx'.task = "awaiting" => ctx'.io = "worker"
          /\ log' # log => ctx'.task = "awaiting"
          /\ ctx'.task = "finished" => (pc' = "done" /\ outcome' = AdapterOutcome')
          /\ (ctx.task = "awaiting" /\ ctx'.task = "finished") => (pc = "done" /\ outcome' = outcome)]_vars

\* the task was resumed with the follow-up response of the worker, after one
\* tool invocation there and after another task had run in between
C20_Witness ==
  /\ Offloaded
  /\ ctx.task = "finished"
  /\ ctx.others
  /\ log.invoked = 1
  /\ outcome = Returned(log.parsed)
  /\ log.parsed \in FollowUps


\* ---------------------------------------------------------------- C21
\* the function tool calls of a vendor response, in the vendor's order
RECURSIVE Flatten(_)
Flatten(choices) ==
  IF choices = <<>> THEN <<>>
  ELSE (IF Head(choices).message.tool_calls = PyNone THEN <<>> ELSE Head(choices).message.tool_calls.list)
       \o Flatten(Tail(choices))
FunctionCallsOf(raw_response) == SelectSeq(Flatten(raw_response.choices), LAMBDA c : c.type = "function")
\* the arguments are the JSON text of an object
ValidArguments(raw_call) == raw_call.function.arguments = ObjectText
\* the ToolCall the claim promises for a raw call
PromisedToolCall(raw_call) ==
  [tool_name |-> raw_call.function.name,
   arguments |-> IF ValidArguments(raw_call) THEN [key |-> "apple"] ELSE InvalidJson,
   call_id |-> raw_call.id]

\* C21: parse_tool_calls returns, for the function tool calls of the vendor
\* response in their order, one ToolCall each, with the error marker as
\* arguments where the arguments are not the JSON text of an object; it
\* never raises.
C21_AsStated ==
  ctx.entry = "parse_tool_calls" =>
    LET calls == FunctionCallsOf(ctx.args) IN
    outcome = Returned(PyList([i \in DOMAIN calls |-> PromisedToolCall(calls[i])]))


\* ---------------------------------------------------------------- C24
\* the definition says required=False
MarkedNonRequired(def) ==
  IF "dict" \in DOMAIN def
  THEN "required" \in DOMAIN def.dict /\ def.dict["required"] = PyBool(FALSE)
  ELSE def.model.required = PyBool(FALSE)
NamesOf(items) == [i \in DOMAIN items |-> items[i].name]
PromisedRequired(items) == NamesOf(SelectSeq(items, LAMBDA item : ~MarkedNonRequired(item.def)))

\* C24: parameters.required of to_dict() is the list of the names of the
\* parameters that are not marked required=False, in parameter order,
\* whether a parameter is a ParameterDefinition or a raw mapping; when that
\* list is empty the key required is absent.
C24_Required ==
  ctx.entry = "to_dict" =>
    LET promised == PromisedRequired(ctx.args.parameters)
        parameters == outcome.value.parameters
    IN IF promised = <<>>
       THEN "required" \notin DOMAIN parameters
       ELSE "required" \in DOMAIN parameters /\ parameters.required = promised

\* a raw mapping with required=None before a ParameterDefinition with
\* required=False: only the first is required
C24_Witness ==
  /\ ctx.entry = "to_dict"
  /\ Len(ctx.args.parameters) = 2
  /\ ctx.args.parameters[1] = [name |-> "shade", def |-> [dict |-> RawMapping(FALSE, PyNone, TRUE, PyNone)]]
  /\ "model" \in DOMAIN ctx.args.parameters[2].def
  /\ ctx.args.parameters[2].def.model.required = PyBool(FALSE)
  /\ outcome.value.parameters.required = <<"shade">>

\* ---------------------------------------------------------------- C25
\* the enum given with a definition, or None
GivenEnum(def) ==
  IF "dict" \in DOMAIN def
  THEN (IF "enum" \in DOMAIN def.dict THEN def.dict["enum"] ELSE PyNone)
  ELSE def.model.enum

\* C25: no key of an emitted property has the value None; enum is absent
\* when none was given (left out or None) and is the given list otherwise.
C25_NoNulls ==
  ctx.entry = "to_dict" =>
    LET items == ctx.args.parameters
        properties == outcome.value.parameters.properties
    IN /\ DOMAIN properties = {items[i].name : i \in DOMAIN items}
       /\ \A i \in DOMAIN items :
            LET property == properties[items[i].name] IN
            /\ \A k \in DOMAIN property : property[k] # PyNone
            /\ IF GivenEnum(items[i].def) = PyNone
               THEN "enum" \notin DOMAIN property
               ELSE "enum" \in DOMAIN property /\ property["enum"] = GivenEnum(items[i].def)

\* a ParameterDefinition without enum and default, and a raw mapping with an
\* enum and required=None
C25_Witness ==
  /\ ctx.entry = "to_dict"
  /\ Len(ctx.args.parameters) = 2
  /\ ctx.args.parameters[1].def =
       [model |-> [type |-> PyStr("string"), description |-> PyStr("a parameter"), enum |-> PyNone,
                   required |-> PyBool(TRUE), default |-> PyNone]]
  /\ ctx.args.parameters[2].def = [dict |-> RawMapping(TRUE, ColorEnum, TRUE, PyNone)]
  /\ DOMAIN outcome.value.parameters.properties[ctx.args.parameters[1].name] = {"type", "description"}
  /\ DOMAIN outcome.value.parameters.properties[ctx.args.parameters[2].name] = {"type", "description", "enum"}

\* ---------------------------------------------------------------- C26
\* C26: invoke on a tool without function raises the ValueError "has no
\* associated function" and calls nothing; on the tool bound to lookup it
\* calls the function once with the arguments as keywords, returns what the
\* function returned (3 for the key apple) and raises what it raised
\* (KeyError for another key, TypeError for a missing key).
C26_Invoke ==
  ctx.entry = "invoke" =>
    LET tool == ctx.args.tool
        arguments == ctx.args.arguments
    IN IF tool.function = None
       THEN /\ outcome = Raised([type |-> "ValueError", msg |-> "Tool '" \o tool.name \o "' has no associated function"])
            /\ log.invoked = 0
       ELSE /\ log.invoked = 1
            /\ log.request = PyDict(arguments)
            /\ outcome = CASE arguments = [key |-> "apple"] -> Returned([int |-> 3])
                           [] arguments = [key |-> "pear"] -> Raised([type |-> "KeyError", msg |-> "pear"])
                           [] OTHER -> Raised([type |-> "TypeError", msg |-> "lookup() missing 1 required positional argument: 'key'"])

\* lookup(key="pear") raised KeyError and invoke let it through
C26_Witness ==
  /\ ctx.entry = "invoke"
  /\ ctx.args = [tool |-> LookupTool, arguments |-> [key |-> "pear"]]
  /\ log.invoked = 1
  /\ outcome = Raised([type |-> "KeyError", msg |-> "pear"])


\* ---------------------------------------------------------------- C22
\* the vendor request failed, the response has no choices, or the response
\* cannot be parsed
VendorFailure(vendor) ==
  \/ vendor \in VendorErrors
  \/ vendor.choices = <<>>
  \/ vendor.choices[1].message.content = NotText

\* C22: a vendor failure in _generate_sync ends the call with the one error
\* kind of the provider, which carries the underlying exception when there is
\* one; it is never answered with an LLMResponse.
C22_AsStated ==
  (ctx.entry = "_generate_sync" /\ VendorFailure(ctx.args.vendor)) =>
    /\ outcome.kind = "raise"
    /\ outcome.exc.type = "Exception"
    /\ ctx.args.vendor \in VendorErrors => outcome.exc.context = ctx.args.vendor

\* ---------------------------------------------------------------- C23
SentMessages == log.request.messages

\* C23: with tool results, OpenAIProvider._generate_sync sends the user
\* prompt first, then an assistant message that carries tool_calls and a
\* message of role tool that carries a tool_call_id.
C23_AsStated ==
  (ctx.entry = "_generate_sync" /\ ctx.provider = "openai"
     /\ ctx.args.tool_results # PyNone /\ ctx.args.tool_results.items # <<>>) =>
    /\ SentMessages[1] = [role |-> "user", content |-> "prompt"]
    /\ \E i \in 2 .. Len(SentMessages) :
         SentMessages[i].role = "assistant" /\ "tool_calls" \in DOMAIN SentMessages[i]
    /\ \E i \in 2 .. Len(SentMessages) :
         SentMessages[i].role = "tool" /\ "tool_call_id" \in DOMAIN SentMessages[i]


\* ---------------------------------------------------------------- C27
NameRegistered(n) == n \in DOMAIN cls_registry
NoAdapterFor(n) == Raised([type |-> "KeyError", msg |-> "No adapter registered for provider '" \o n \o "'"])

\* C27: whatever was registered before, register with a name that is
\* registered raises ValueError and leaves the registry as it is; no call
\* changes the class of a registered name; get_adapter_class and
\* create_adapter raise KeyError for a name that is not registered, and
\* create_adapter then calls no adapter class; for a registered name they
\* return its class, respectively an instance of it made from the provider.
C27_AdapterRegistry ==
  [][/\ \A n \in ProviderNames, c \in AdapterClasses :
          (call_register(n, c) /\ NameRegistered(n)) =>
            /\ outcome'.kind = "raise" /\ outcome'.exc.type = "ValueError"
            /\ cls_registry' = cls_registry
     /\ \A n \in DOMAIN cls_registry : n \in DOMAIN cls_registry' /\ cls_registry'[n] = cls_registry[n]
     /\ \A n \in ProviderNames :
          call_get_adapter_class(n) =>
            outcome' = IF NameRegistered(n) THEN Returned(cls_registry[n]) ELSE NoAdapterFor(n)
     /\ \A n \in ProviderNames, p \in ProviderInstances :
          call_create_adapter(n, p) =>
            IF NameRegistered(n)
            THEN /\ outcome' = Returned([instance_of |-> cls_registry[n], provider |-> p])
                 /\ log'.request = [adapter_class |-> cls_registry[n], provider |-> p]
            ELSE /\ outcome' = NoAdapterFor(n)
                 /\ log'.request = PyNone]_vars

\* openai was registered with OpenAIAdapter; registering GeminiAdapter for
\* it failed and OpenAIAdapter is still its class
C27_Witness ==
  /\ ctx.entry = "register"
  /\ ctx.args = [provider_name |-> "openai", adapter_class |-> [class |-> "GeminiAdapter"]]
  /\ "openai" \in DOMAIN cls_registry
  /\ cls_registry["openai"] = [class |-> "OpenAIAdapter"]
  /\ outcome.kind = "raise"
  /\ outcome.exc.type = "ValueError"


\* ---------------------------------------------------------------- C28
\* the adapter's tool loop is running over a first response that carries
\* more tool calls than max_tool_calls
Surplus == AdapterBacked /\ pc = "tools" /\ Len(response.tool_calls) > max_tool_calls
\* a step of the loop that processed a call, invoked a function or wrote to
\* tool_results
LoopActed == log'.processed # log.processed \/ log'.invoked # log.invoked \/ tool_results' # tool_results

\* C28: execute_with_tools, first response with more than max_tool_calls
\* tool calls: only the first max_tool_calls calls are processed, in the order
\* returned (the k-th step of the loop processes call k, k <= max_tool_calls),
\* a step invokes at most the function of its own call and writes only the
\* entry of its own call, the loop ends after exactly max_tool_calls calls
\* and goes on to the follow-up request without raising.
C28_Truncation ==
  [][Surplus =>
       /\ LoopActed =>
            /\ idx <= max_tool_calls
            /\ log.processed = idx - 1 /\ log'.processed = idx
            /\ log'.invoked <= log.invoked + 1
            /\ log'.invoked # log.invoked => Found(response.tool_calls[idx])
            /\ DOMAIN tool_results' = DOMAIN tool_results \cup {KeyOf(response.tool_calls[idx])}
            /\ \A k \in DOMAIN tool_results : k # KeyOf(response.tool_calls[idx]) => tool_results'[k] = tool_results[k]
       /\ pc' # "tools" =>
            /\ pc' = "prepare2" /\ outcome' = Pending
            /\ log'.processed = max_tool_calls
            /\ DOMAIN tool_results' = {KeyOf(response.tool_calls[i]) : i \in 1..max_tool_calls}
  ]_vars

\* two calls came back with a cap of one: the first was processed and its
\* result stored, the second (another key, a supplied tool) was left alone,
\* and the follow-up request is due
C28_Witness ==
  /\ AdapterBacked /\ pc = "prepare2" /\ outcome = Pending
  /\ Len(response.tool_calls) = 2 /\ max_tool_calls = 1
  /\ log.processed = 1 /\ log.invoked = 1
  /\ DOMAIN tool_results = {"call1"}
  /\ KeyOf(response.tool_calls[2]) # "call1" /\ Found(response.tool_calls[2])


\* ---------------------------------------------------------------- C29
\* what the loop in hand stores for a call
ResultOf(tool_call) ==
  IF AdapterBacked THEN process_tool_call(tool_call, tools_dict) ELSE ProviderToolResult(tool_call)
\* the map after the calls of a round: an entry for the key of every call of
\* the round, holding the result of the last call of the round with that key;
\* in the first round of a run there are no other entries
RoundStored ==
  /\ \A i \in DOMAIN RoundCalls :
       /\ KeyOf(RoundCalls[i]) \in DOMAIN tool_results
       /\ ~LaterSameKey(RoundCalls, i) => tool_results[KeyOf(RoundCalls[i])] = ResultOf(RoundCalls[i])
  /\ (AdapterBacked \/ log.generate = 1) =>
       DOMAIN tool_results = {KeyOf(RoundCalls[i]) : i \in DOMAIN RoundCalls}

\* C29: in both loops the result of a processed call is stored under its
\* call_id when it has one, else under its tool_name; the write replaces the
\* entry already under that key and leaves every other entry as it was; no
\* other step of a run changes the map (a new run starts from the empty map);
\* so when the follow-up of a round is due the map holds one entry per key of
\* the round's calls with the result of the last call that has the key.
C29_Keyed ==
  [][/\ (pc \in {"tools", "invoke"} /\ log'.processed # log.processed) =>
          LET tool_call == RoundCalls[idx] IN
          /\ DOMAIN tool_results' = DOMAIN tool_results \cup {KeyOf(tool_call)}
          /\ tool_results'[KeyOf(tool_call)] = ResultOf(tool_call)
          /\ \A k \in DOMAIN tool_results : k # KeyOf(tool_call) => tool_results'[k] = tool_results[k]
     /\ log'.processed = log.processed =>
          tool_results' = tool_results \/ (log'.processed = 0 /\ tool_results' = EmptyDict)
     /\ FollowUpDue' => RoundStored'
  ]_vars

\* raw-Provider loop: both calls of the round have the same key and different
\* results, and the map holds the second one only
C29_Witness ==
  /\ ProviderBacked /\ FollowUpDue
  /\ Len(RoundCalls) = 2
  /\ KeyOf(RoundCalls[1]) = KeyOf(RoundCalls[2])
  /\ ResultOf(RoundCalls[1]) # ResultOf(RoundCalls[2])
  /\ tool_results[KeyOf(RoundCalls[2])] = ResultOf(RoundCalls[2])
  /\ DOMAIN tool_results = {KeyOf(RoundCalls[2])}


\* ---------------------------------------------------------------- C30
\* a tool loop is running over the calls of the round in hand
InToolLoop == (AdapterBacked /\ pc = "tools") \/ (ProviderBacked /\ pc = "invoke")

\* C30: in both loops the calls of a round are processed one at a time in
\* the order returned: only a loop step invokes a tool function; the step at
\* position i processes call i of the round, at most one function is invoked
\* in it, the results of the calls 1..i-1 are already stored when it starts
\* and the result of call i is stored when it ends; the next step is at
\* position i + 1, or the loop has ended.
C30_InOrder ==
  [][/\ log'.invoked # log.invoked => InToolLoop
     /\ (InToolLoop /\ log'.processed # log.processed) =>
          /\ idx \in DOMAIN RoundCalls
          /\ \A j \in 1..(idx - 1) : KeyOf(RoundCalls[j]) \in DOMAIN tool_results
          /\ log'.processed = Count(log.processed, 1)
          /\ log'.invoked \in {log.invoked, Count(log.invoked, 1)}
          /\ log'.invoked # log.invoked => Found(RoundCalls[idx])
          /\ KeyOf(RoundCalls[idx]) \in DOMAIN tool_results'
          /\ tool_results'[KeyOf(RoundCalls[idx])] = ResultOf(RoundCalls[idx])
          /\ IF InToolLoop' THEN idx' = idx + 1 /\ response' = response
             ELSE idx = Len(RoundCalls) /\ FollowUpDue'
     /\ (InToolLoop' /\ ~InToolLoop) => idx' = 1
  ]_vars

\* the second call of a round has just been processed after the first: both
\* functions ran, and both results are stored under different keys
C30_Witness ==
  /\ FollowUpDue /\ Len(RoundCalls) = 2 /\ idx = 2
  /\ KeyOf(RoundCalls[1]) # KeyOf(RoundCalls[2])
  /\ Found(RoundCalls[1]) /\ Found(RoundCalls[2])
  /\ log.invoked = 2
  /\ tool_results = (KeyOf(RoundCalls[1]) :> ResultOf(RoundCalls[1])) @@ (KeyOf(RoundCalls[2]) :> ResultOf(RoundCalls[2]))


\* ---------------------------------------------------------------- C31
\* the phase of the invocation
Phase ==
  CASE pc = "idle" -> "INITIAL"
    [] pc \in {"prepare1", "execute1", "parse1", "generate"} -> "AWAITING_FIRST_RESPONSE"
    [] pc \in {"tools", "invoke"} -> "PROCESSING_TOOLS"
    [] pc \in {"prepare2", "execute2", "parse2", "generate_followup"} -> "AWAITING_FOLLOWUP_RESPONSE"
    [] pc = "done" -> "TERMINAL"
\* the moves of the diagram; an invocation that raises goes to TERMINAL from
\* where it is
PhaseMoves ==
  {<<"INITIAL", "AWAITING_FIRST_RESPONSE">>,
   <<"AWAITING_FIRST_RESPONSE", "TERMINAL">>,
   <<"AWAITING_FIRST_RESPONSE", "PROCESSING_TOOLS">>,
   <<"PROCESSING_TOOLS", "AWAITING_FOLLOWUP_RESPONSE">>,
   <<"AWAITING_FOLLOWUP_RESPONSE", "TERMINAL">>,
   <<"AWAITING_FOLLOWUP_RESPONSE", "PROCESSING_TOOLS">>}
FirstResponseArrived == log.parsed # PyNone

\* C31: an invocation moves only along INITIAL -> AWAITING_FIRST_RESPONSE ->
\* (TERMINAL | PROCESSING_TOOLS -> AWAITING_FOLLOWUP_RESPONSE -> TERMINAL), or
\* ends by raising; TERMINAL -> TERMINAL only; a tool function is invoked only
\* in PROCESSING_TOOLS, after the first response has arrived; the follow-up
\* becomes due only when the last call of the round has been processed and
\* every call of the round has its entry; AWAITING_FOLLOWUP_RESPONSE ->
\* PROCESSING_TOOLS happens only in the raw-Provider loop, with a response
\* that carries tool calls and the round counter below max_tool_calls.
C31_Phases ==
  [][/\ Phase' # Phase =>
          \/ <<Phase, Phase'>> \in PhaseMoves
          \/ Phase' = "TERMINAL" /\ outcome'.kind = "raise"
     /\ Phase = "TERMINAL" => Phase' = "TERMINAL"
     /\ Phase' = "TERMINAL" => outcome'.kind \in {"return", "raise"}
     /\ Phase' # "TERMINAL" /\ Phase' # "INITIAL" => outcome' = Pending
     /\ log'.invoked # log.invoked => Phase = "PROCESSING_TOOLS" /\ FirstResponseArrived
     /\ Phase' = "PROCESSING_TOOLS" => FirstResponseArrived' /\ response'.tool_calls # <<>>
     /\ (Phase = "PROCESSING_TOOLS" /\ Phase' # Phase) =>
          /\ Phase' = "AWAITING_FOLLOWUP_RESPONSE"
          /\ idx = Len(RoundCalls)
          /\ log'.processed = Count(log.processed, 1)
          /\ \A i \in DOMAIN RoundCalls : KeyOf(RoundCalls[i]) \in DOMAIN tool_results'
     /\ (Phase = "AWAITING_FOLLOWUP_RESPONSE" /\ Phase' = "PROCESSING_TOOLS") =>
          /\ ProviderBacked
          /\ call_count < max_tool_calls
          /\ call_count' = call_count + 1
  ]_vars

\* the raw-Provider loop went back from the follow-up to a second round of
\* tool calls, and the second follow-up is due
C31_Witness ==
  /\ ProviderBacked /\ Phase = "AWAITING_FOLLOWUP_RESPONSE"
  /\ call_count = 2 /\ max_tool_calls = 2 /\ log.generate = 2
  /\ log.processed >= 2 /\ log.invoked >= 1


\* ---------------------------------------------------------------- C32
\* a provider.generate call is made in this step
GenerateCalled == log'.generate # log.generate
GenerateReturned == GenerateCalled /\ log'.raised = PyNone

\* C32: raw-Provider loop of llm_toolbridge's ToolBridge: the initial
\* generate call gets the prompt, the extra options and the resolved tools,
\* and no tool results; every follow-up call gets the same prompt and extra
\* options, tools=[] and the tool-results map as it stands; the response a
\* call returns takes the place of the previous one, and is what the run
\* returns when the loop ends with it.
C32_FollowUp ==
  [][(ProviderBacked /\ GenerateCalled) =>
       /\ log'.request.prompt = ctx.args.prompt
       /\ log'.request.kwargs = ctx.args.kwargs
       /\ log.generate = 0 =>
            /\ pc = "generate"
            /\ log'.request.tools = PyList(tools)
            /\ log'.request.tool_results = PyNone
       /\ log.generate > 0 =>
            /\ pc = "generate_followup"
            /\ log'.request.prompt = log.request.prompt
            /\ log'.request.kwargs = log.request.kwargs
            /\ log'.request.tools = PyList(<<>>)
            /\ log'.request.tool_results = PyDict(tool_results)
            /\ tool_results # EmptyDict
       /\ GenerateReturned =>
            /\ response' = log'.parsed
            /\ pc' = "done" => outcome' = Returned(response')
  ]_vars

\* a second follow-up has been answered: tools had been resolved and extra
\* options given, the follow-up carried no tools and the results collected
C32_Witness ==
  /\ ProviderBacked /\ log.generate = 3 /\ log.raised = PyNone
  /\ tools # <<>> /\ ctx.args.kwargs # NoOptions
  /\ log.request.tools = PyList(<<>>)
  /\ log.request.tool_results = PyDict(tool_results)
  /\ Cardinality(DOMAIN tool_results) = 2
  /\ response = log.parsed


\* ---------------------------------------------------------------- C33
\* a follow-up provider.generate call is made in this step
FollowUpCalled == GenerateCalled /\ pc = "generate_followup"

KeyInHand == IF pc = "invoke" THEN {KeyOf(response.tool_calls[idx])} ELSE {}

\* C34: raw-Provider loop, from the first round of tool calls to the end of
\* the invocation: no step empties the map or removes a key; the step that
\* processes a call adds the key of that call and is the only one that
\* changes an entry, and only the entry under that key; each follow-up
\* generate call is passed the map as it stands.  So the map passed to the
\* k-th follow-up has a key for every call processed in the rounds 1..k.
C34_Accumulated ==
  [][(~AdapterBacked /\ pc \in {"invoke", "generate_followup"}) =>
       /\ DOMAIN tool_results' = DOMAIN tool_results \cup KeyInHand
       /\ \A k \in DOMAIN tool_results : k \notin KeyInHand => tool_results'[k] = tool_results[k]
       /\ FollowUpCalled =>
            /\ log'.request.tool_results = PyDict(tool_results)
            /\ tool_results # EmptyDict
            /\ \A i \in DOMAIN response.tool_calls : KeyOf(response.tool_calls[i]) \in DOMAIN tool_results
  ]_vars

\* the second follow-up is due, and the map holds the results of the two
\* calls of the first round and of the call of the second round
C34_Witness ==
  /\ ProviderBacked /\ pc = "generate_followup"
  /\ call_count = 2 /\ log.generate = 2 /\ log.processed = 3
  /\ Cardinality(DOMAIN tool_results) = 3


\* ---------------------------------------------------------------- C35
\* the steps that hand the thread of control from one invocation to the other
Switched == parked' # parked
\* a request to the provider is made in this step
RequestMade == log'.prepare # log.prepare \/ log'.generate # log.generate
\* a tool call is processed in this step
CallProcessed == log'.processed # log.processed
\* the loop over the tool calls of the first response starts
FirstLoopStarts == pc \in {"parse1", "generate"} /\ pc' \in {"tools", "invoke"}
\* the map holds an entry for the calls of the invocation's own round and for
\* nothing else
OwnRound ==
  /\ DOMAIN tool_results = {KeyOf(RoundCalls[i]) : i \in DOMAIN RoundCalls}
  /\ AdapterBacked => \A i \in DOMAIN RoundCalls :
                        ~LaterSameKey(RoundCalls, i) => tool_results[KeyOf(RoundCalls[i])] = ResultOf(RoundCalls[i])

\* C35: two invocations on the same ToolBridge or Adapter, one after the
\* other or interleaved: each has its own tool-results map.  The loop over
\* the first response starts from the empty map; a processed call writes its
\* own result into the map of the invocation that processes it and leaves the
\* map of the other untouched; the map travels with its invocation when the
\* other one goes on; a request carries no tool results or the map of the
\* invocation that makes it; and when the first follow-up of an invocation is
\* due its map holds entries for its own calls only.
C35_OwnMap ==
  [][/\ FirstLoopStarts => tool_results' = EmptyDict
     /\ CallProcessed =>
          /\ tool_results' = DictSet(tool_results, KeyOf(RoundCalls[idx]), ResultOf(RoundCalls[idx]))
          /\ parked' = parked
     /\ (Switched /\ parked # NoFrame) =>
          /\ tool_results' = parked.tool_results
          /\ parked'.tool_results = tool_results
     /\ ~Switched /\ ~CallProcessed => tool_results' \in {tool_results, EmptyDict}
     /\ RequestMade =>
          /\ log'.request.tool_results \in {PyNone, PyDict(tool_results)}
          /\ pc \in {"prepare2", "generate_followup"} => log'.request.tool_results = PyDict(tool_results)
          /\ parked' = parked
     /\ (FollowUpDue' /\ (AdapterBacked \/ call_count' = 1)) => OwnRound'
  ]_vars

\* one invocation has made its follow-up request with its own result for
\* lookup and has ended, while the other, set aside, holds another result
\* under the same key
C35_Witness ==
  /\ parked # NoFrame /\ parked.pc \in {"prepare2", "generate_followup"}
  /\ pc = "done" /\ outcome.kind = "return"
  /\ "lookup" \in DOMAIN tool_results /\ "lookup" \in DOMAIN parked.tool_results
  /\ tool_results["lookup"] # parked.tool_results["lookup"]
  /\ log.request.tool_results = PyDict(tool_results)


\* ---------------------------------------------------------------- C36
\* the tool of that name among the tools resolved for the invocation
Resolved(name) == \E i \in DOMAIN tools : tools[i].name = name
NotRegisteredResult(name) == [error |-> Repr(NoToolMsg(name)), success |-> FALSE]
\* what calling the function of a tool gives as a tool result of the
\* raw-Provider loop
InvokedResult(tool, arguments) ==
  IF invoke(tool, arguments).kind = "return"
  THEN invoke(tool, arguments).value
  ELSE [error |-> Str(invoke(tool, arguments).exc), success |-> FALSE]

\* C36: raw-Provider loop, the step that processes a tool call: the tool is
\* the one the registry of the ToolBridge holds under the call's name at that
\* moment, whatever tools were resolved for the invocation.  A name that is
\* not registered gets the KeyError of get_tool as an error result and no
\* function is called, also when a Tool object of that name was passed to
\* execute; a registered tool is invoked, also when it was not offered.
C36_RegistryLookup ==
  [][(ProviderBacked /\ pc = "invoke" /\ CallProcessed) =>
       LET tool_call == response.tool_calls[idx] IN
       IF IsRegistered(tool_call.tool_name)
       THEN /\ tool_results'[KeyOf(tool_call)] = InvokedResult(Registered(tool_call.tool_name), tool_call.arguments)
            /\ log'.invoked = Count(log.invoked, IF Registered(tool_call.tool_name).function = None THEN 0 ELSE 1)
       ELSE /\ tool_results'[KeyOf(tool_call)] = NotRegisteredResult(tool_call.tool_name)
            /\ log'.invoked = log.invoked
  ]_vars

\* one invocation was passed the Tool object lookup while no lookup was
\* registered, and its call of lookup got the error result; lookup was
\* registered after that, and a second invocation, passed tools=[], had its
\* call of lookup answered by the function of the registered tool
C36_Witness ==
  /\ ProviderBacked /\ pc = "generate_followup"
  /\ parked # NoFrame /\ parked.pc = "generate_followup"
  /\ Resolved("lookup") /\ tool_results = ("lookup" :> NotRegisteredResult("lookup"))
  /\ IsRegistered("lookup")
  /\ parked.tools = <<>> /\ parked.tool_results = ("lookup" :> [int |-> 3])
  /\ log.invoked = 1


\* ---------------------------------------------------------------- C37
\* the Tool that the tools supplied for the invocation hold under a name (the
\* last one, when there are several)
Supplied(name) == tools[CHOOSE i \in DOMAIN tools : tools[i].name = name /\ \A j \in DOMAIN tools : tools[j].name = name => j <= i]

\* C37: Adapter.execute_with_tools, also behind ToolBridge.execute: while
\* the invocation is in flight its name-to-Tool map is the one built from the
\* tools supplied, from before the first request on, and neither a
\* registration nor any other step changes it; the step that processes a
\* call calls at most the function of the supplied tool of that name; a name
\* that was not supplied gets the 'not found' error result and nothing is
\* invoked, also when the ToolBridge has a tool registered under it.
C37_SuppliedOnly ==
  [][/\ (AdapterBacked /\ InFlight') =>
          /\ DOMAIN tools_dict' = {tools'[i].name : i \in DOMAIN tools'}
          /\ \A n \in DOMAIN tools_dict' : tools_dict'[n] = Supplied(n)'
     /\ (AdapterBacked /\ InFlight /\ ~Switched) => tools_dict' = tools_dict /\ tools' = tools
     /\ (AdapterBacked /\ pc = "tools" /\ CallProcessed) =>
          LET tool_call == Processed[idx] IN
          IF Resolved(tool_call.tool_name)
          THEN /\ log'.invoked = Count(log.invoked, IF Supplied(tool_call.tool_name).function = None THEN 0 ELSE 1)
               /\ invoke(Supplied(tool_call.tool_name), tool_call.arguments).kind = "return" =>
                    tool_results'[KeyOf(tool_call)] =
                      [result |-> invoke(Supplied(tool_call.tool_name), tool_call.arguments).value, success |-> TRUE]
          ELSE /\ log'.invoked = log.invoked
               /\ tool_results'[KeyOf(tool_call)] = NotFoundExpected(tool_call)
  ]_vars

\* tools=[] was passed; the provider named lookup, which the ToolBridge has
\* registered: nothing was invoked and the call got the 'not found' result
C37_Witness ==
  /\ AdapterBacked /\ pc = "prepare2" /\ parked = NoFrame
  /\ tools = <<>> /\ IsRegistered("lookup")
  /\ response.tool_calls[1].arguments = [key |-> "apple"]
  /\ tool_results = ("lookup" :> NotFoundExpected(response.tool_calls[1]))
  /\ log.invoked = 0


\* ---------------------------------------------------------------- C38
\* steps of the operations that read the registry
ExecuteStep == pc = "idle" /\ pc' # "idle"
InvocationStep == pc # "idle"  /\ (pc' # pc \/ log' # log \/ idx' # idx \/ parked' # parked)
GetToolStep == \E n \in ToolNames : get_tool_call(n)
ResolveStep == \E a \in SharedArgs : resolve_tools_call(a)
\* steps of the operations that register
RegisterStep ==
  \/ \E t \in Tools : register_tool_call(t) \/ register_in_flight(t)
  \/ \E ts \in Batches : register_tools_call(ts)
RegisteredNames(reg) == {reg[i].name : i \in DOMAIN reg}
\* reg2 is reg1 with Tools added at the end under names that reg1 does not
\* have, each name once
Extends(reg1, reg2) ==
  /\ Len(reg2) >= Len(reg1)
  /\ SubSeq(reg2, 1, Len(reg1)) = reg1
  /\ \A i \in (Len(reg1) + 1) .. Len(reg2) : reg2[i].name \notin RegisteredNames(SubSeq(reg2, 1, i - 1))

\* C38: a step of execute or execute_sync, of an invocation in progress, of
\* get_tool and of _resolve_tools leaves the registry as it is, whether the
\* call returns or raises; a step that changes the registry is one of
\* register_tool / register_tools and only adds Tools under their own names,
\* which were not registered; every Tool registered stays registered under
\* its name, the same object.
C38_RegistryFrame ==
  [][/\ (ExecuteStep \/ InvocationStep \/ GetToolStep \/ ResolveStep) => self_tools' = self_tools
     /\ self_tools' # self_tools => RegisterStep /\ Extends(self_tools, self_tools')
     /\ \A n \in RegisteredNames(self_tools) : IsRegistered(n)' /\ Registered(n)' = Registered(n)
  ]_vars

\* two invocations have run to their ends and tool calls were processed;
\* a second Tool was registered after lookup, which is still the first entry
C38_Witness ==
  /\ pc = "done" /\ outcome.kind = "return" /\ log.processed >= 1
  /\ parked # NoFrame /\ parked.pc = "done"
  /\ Len(self_tools) = 2 /\ self_tools[1] = LookupTool


\* ------------------------------------------------------------ GeminiProvider
\* (src/llm_toolbridge/providers/gemini.py)
\* A name or an id is the sequence of its hyphens and of the pieces between
\* them: "get-weather" is <<"get", "-", "weather">>, "lookup" is <<"lookup">>.
Hyphen == "-"
Text(piece) == <<piece>>
GeminiName(prefix, i) == <<"gemini", Hyphen, prefix, Hyphen, ToString(i)>>

\* "-" in tool_id
HasHyphen(tool_id) == \E i \in DOMAIN tool_id : tool_id[i] = Hyphen

\* tool_id.split("-")[0]: what stands before the first hyphen
FirstPiece(tool_id) ==
  LET i == CHOOSE i \in DOMAIN tool_id : tool_id[i] = Hyphen /\ \A j \in DOMAIN tool_id : tool_id[j] = Hyphen => i <= j
  IN SubSeq(tool_id, 1, i - 1)

\* tool_name = tool_id.split("-")[0] if "-" in tool_id else tool_id
BaseToolName(tool_id) == IF HasHyphen(tool_id) THEN FirstPiece(tool_id) ELSE tool_id

\* The tools of a Gemini conversation, and the calls the model makes of them.
GeminiToolNames == {Text("lookup"), <<"get", Hyphen, "weather">>}
GeminiArguments == PyDict([key |-> PyStr("apple")])
GeminiFunctionCalls == [name : GeminiToolNames, args : {GeminiArguments}]

\* ToolCall(tool_name=..., arguments=..., call_id=...); a call_id of None is
\* written as the empty sequence
NoCallId == <<>>
GeminiToolCall(tool_name, arguments, call_id) == [tool_name |-> tool_name, arguments |-> arguments, call_id |-> call_id]

\* for idx, func_call in enumerate(response.function_calls)
FromFunctionCalls(function_calls) ==
  [i \in DOMAIN function_calls |->
     GeminiToolCall(function_calls[i].name, function_calls[i].args, GeminiName("function", i - 1))]

\* for part_idx, part in enumerate(response.parts): the parts that have a
\* function_call; a part of text is [text |-> ...]
RECURSIVE FromParts(_, _)
FromParts(parts, part_idx) ==
  IF parts = <<>> THEN <<>>
  ELSE (IF "function_call" \in DOMAIN Head(parts)
        THEN <<GeminiToolCall(Head(parts).function_call.name, Head(parts).function_call.args, GeminiName("part", part_idx))>>
        ELSE <<>>)
       \o FromParts(Tail(parts), part_idx + 1)

\* parse_tool_calls(response): the direct function_call, then the
\* function_calls, then the parts (the args of the universe are dicts; no
\* response has a _candidate_dict)
gemini_parse_tool_calls(raw) ==
  (IF "function_call" \in DOMAIN raw
   THEN <<GeminiToolCall(raw.function_call.name, raw.function_call.args, <<"gemini", Hyphen, "direct", Hyphen, "call">>)>>
   ELSE <<>>)
  \o (IF "function_calls" \in DOMAIN raw
      THEN (IF raw.function_calls = PyNone THEN <<>> ELSE FromFunctionCalls(raw.function_calls.list))
      ELSE <<>>)
  \o (IF "parts" \in DOMAIN raw THEN FromParts(raw.parts, 0) ELSE <<>>)

\* What client.models.generate_content(...) returns: a text, and the function
\* calls the model makes (None when it makes none); some responses also show
\* their parts, or a direct function_call.
GeminiTexts == {None, "It is sunny."}
PlainAnswers ==
  [text : GeminiTexts, function_calls : {PyNone} \cup {PyList(s) : s \in SeqUpTo(GeminiFunctionCalls, MaxCalls) \ {<<>>}}]
PartsAnswers ==
  {[text |-> "It is sunny.", function_calls |-> PyList(<<c>>), parts |-> <<[text |-> "It is sunny."], [function_call |-> c]>>] :
     c \in GeminiFunctionCalls}
DirectAnswers ==
  {[text |-> None, function_calls |-> PyNone, function_call |-> c] : c \in GeminiFunctionCalls}
GeminiAnswers == PlainAnswers \cup PartsAnswers \cup DirectAnswers
GeminiErrors == {[type |-> "ClientError", msg |-> "429 RESOURCE_EXHAUSTED"]}

\* What a tool may return, and the dict the raw-Provider loop stores for a
\* tool call that raised (bridge.py:161-164).
PyInt(n) == [int |-> n]
ReturnValues ==
  {PyInt(3), PyStr("sunny"), PyBool(TRUE), PyDict([temp |-> PyInt(3)]), PyList(<<PyInt(3)>>),
   PyInt(0), PyStr(""), PyBool(FALSE), PyNone, PyDict(EmptyDict), PyList(<<>>)}
ErrorDict(e) == PyDict([error |-> PyStr(Str(e)), success |-> PyBool(FALSE)])
ToolRuns == {Returned(v) : v \in ReturnValues} \cup {Raised([type |-> "ValueError", msg |-> "boom"])}

IsDict(v) == "dict" \in DOMAIN v
IsList(v) == "list" \in DOMAIN v

\* Python's truth value of a result
TruthValue(v) ==
  CASE "int" \in DOMAIN v -> v.int # 0
    [] IsDict(v) -> DOMAIN v.dict # {}
    [] OTHER -> Truthy(v)

\* type(v).__name__
TypeName(v) ==
  CASE v = PyNone -> "NoneType"
    [] "int" \in DOMAIN v -> "int"
    [] "bool" \in DOMAIN v -> "bool"
    [] "str" \in DOMAIN v -> "str"
    [] IsList(v) -> "list"
    [] IsDict(v) -> "dict"

\* tool_results[key] = value on a dict given by its items in insertion order
ItemsSet(items, key, value) ==
  IF \E i \in DOMAIN items : items[i].key = key
  THEN [i \in DOMAIN items |-> IF items[i].key = key THEN [key |-> key, value |-> value] ELSE items[i]]
  ELSE Append(items, [key |-> key, value |-> value])

\* tool_call.call_id or tool_call.tool_name
ResultKeyOf(tool_call) == IF tool_call.call_id = NoCallId THEN tool_call.tool_name ELSE tool_call.call_id

\* the for loop of the raw-Provider round (bridge.py:152-165) over the tool
\* calls of a response; runs[i] is what get_tool and invoke did for call i
RECURSIVE StoreResults(_, _, _)
StoreResults(tool_calls, runs, items) ==
  IF tool_calls = <<>> THEN items
  ELSE StoreResults(Tail(tool_calls), Tail(runs),
         ItemsSet(items, ResultKeyOf(Head(tool_calls)),
                  IF Head(runs).kind = "return" THEN Head(runs).value ELSE ErrorDict(Head(runs).exc)))

\* the entries of contents
UserContent == [role |-> "user", parts |-> <<[text |-> "prompt"]>>]
FunctionCallContent(tool_name) ==
  [role |-> "model", parts |-> <<[function_call |-> [name |-> tool_name, args |-> PyDict(EmptyDict)]]>>]
FunctionResponseContent(tool_name, response_data) ==
  [role |-> "user", parts |-> <<[function_response |-> [name |-> tool_name, response |-> response_data]]>>]

\* the function response added for one entry of tool_results
\* (gemini.py:144-173): the result when it is true, else what
\* result_data.get("error", "Unknown error") gives
ResultContent(tool_name, result_data) ==
  IF TruthValue(result_data)
  THEN Returned(FunctionResponseContent(tool_name,
         IF IsDict(result_data) \/ IsList(result_data) THEN result_data ELSE PyDict([result |-> result_data])))
  ELSE IF ~IsDict(result_data)
       THEN Raised([type |-> "AttributeError", msg |-> "'" \o TypeName(result_data) \o "' object has no attribute 'get'"])
       ELSE Returned(FunctionResponseContent(tool_name,
              PyDict([error |-> IF "error" \in DOMAIN result_data.dict THEN result_data.dict.error ELSE PyStr("Unknown error")])))

\* for tool_id, result_data in tool_results.items(): contents so far, or the
\* exception that ended the loop
RECURSIVE ResultContents(_, _)
ResultContents(items, contents) ==
  IF items = <<>> THEN Returned(contents)
  ELSE LET tool_name == BaseToolName(Head(items).key)
           r == ResultContent(tool_name, Head(items).value)
       IN IF r.kind = "raise" THEN [kind |-> "raise", exc |-> r.exc, contents |-> Append(contents, FunctionCallContent(tool_name))]
          ELSE ResultContents(Tail(items), contents \o <<FunctionCallContent(tool_name), r.value>>)

\* if tool_results: ... else: contents = [the prompt]
GeminiContents(results) ==
  IF results = PyNone \/ results.items = <<>>
  THEN Returned(<<UserContent>>)
  ELSE ResultContents(results.items, <<UserContent>>)

\* request_params: the contents, and a config that declares the tools when
\* tools is not empty
GeminiRequest(tool_list, contents) ==
  IF tool_list = PyNone \/ tool_list = PyList(<<>>)
  THEN [contents |-> contents]
  ELSE [contents |-> contents, config |-> [function_declarations |-> [i \in DOMAIN tool_list.list |-> tool_list.list[i].name]]]

\* the try block: the request is sent and the response is parsed; every
\* exception becomes RuntimeError("Gemini API error: ...")
GeminiAnswer(vendor) ==
  IF vendor \in GeminiErrors
  THEN Raised([type |-> "RuntimeError", msg |-> "Gemini API error: " \o vendor.msg, cause |-> vendor])
  ELSE Returned([content |-> vendor.text,
                 tool_calls |-> IF vendor.function_calls # PyNone THEN gemini_parse_tool_calls(vendor) ELSE <<>>])

\* _generate_sync(prompt, tools, tool_results): the contents are built before
\* the try block, so an exception of that loop is raised as it is
gemini_generate_sync(tool_list, results, vendor) ==
  LET contents == GeminiContents(results) IN
  IF contents.kind = "raise" THEN Raised(contents.exc) ELSE GeminiAnswer(vendor)

\* the request that was sent, None when none was
GeminiSent(tool_list, results) ==
  LET contents == GeminiContents(results) IN
  IF contents.kind = "raise" THEN PyNone ELSE GeminiRequest(tool_list, contents.value)

\* The tool calls whose results come back to GeminiProvider: the ones its
\* parse_tool_calls made of an answer, and the same calls with no call_id or
\* with the id of another convention.
ParsedCalls == {gemini_parse_tool_calls(a) : a \in GeminiAnswers} \ {<<>>}
OtherIds == {NoCallId, Text("call1")}
OtherCalls == {<<GeminiToolCall(n, GeminiArguments, id)>> : n \in GeminiToolNames, id \in OtherIds}
AnsweredCalls == ParsedCalls \cup OtherCalls
GeminiTools == {PyList(<<>>), PyList(<<[name |-> Text("lookup")]>>)}

call_gemini_parse_tool_calls(raw) ==
  /\ pc = "idle"
  /\ ctx = NoCtx
  /\ outcome' = Returned(PyList(gemini_parse_tool_calls(raw)))
  /\ ctx' = [Called("parse_tool_calls", raw) EXCEPT !.provider = "gemini"]
  /\ UNCHANGED <<cls_registry, parked>>
  /\ UNCHANGED <<self_tools, backing, pc, frame, log>>

\* the first request of a conversation: no tool results yet
call_gemini_generate_sync(tool_list, vendor) ==
  /\ pc = "idle"
  /\ ctx = NoCtx
  /\ outcome' = gemini_generate_sync(tool_list, PyNone, vendor)
  /\ log' = [NoLog EXCEPT !.request = GeminiSent(tool_list, PyNone)]
  /\ ctx' = [Called("_generate_sync", [tools |-> tool_list, tool_results |-> PyNone, tool_calls |-> <<>>, runs |-> <<>>, vendor |-> vendor])
               EXCEPT !.provider = "gemini"]
  /\ UNCHANGED <<cls_registry, parked>>
  /\ UNCHANGED <<self_tools, backing, pc, frame>>

\* a round of the raw-Provider loop and its follow-up request
\* (bridge.py:152-173): the results of tool_calls are stored, and
\* _generate_sync is called with tools=[] and these results
gemini_follow_up(tool_calls, runs, vendor) ==
  /\ pc = "idle"
  /\ ctx = NoCtx
  /\ LET results == [items |-> StoreResults(tool_calls, runs, <<>>)] IN
     /\ outcome' = gemini_generate_sync(PyList(<<>>), results, vendor)
     /\ log' = [NoLog EXCEPT !.request = GeminiSent(PyList(<<>>), results)]
     /\ ctx' = [Called("_generate_sync", [tools |-> PyList(<<>>), tool_results |-> results, tool_calls |-> tool_calls, runs |-> runs, vendor |-> vendor])
                  EXCEPT !.provider = "gemini"]
  /\ UNCHANGED <<cls_registry, parked>>
  /\ UNCHANGED <<self_tools, backing, pc, frame>>

GeminiNext ==
  \/ pc = "idle" /\ ctx = NoCtx /\ \E raw \in GeminiAnswers : call_gemini_parse_tool_calls(raw)
  \/ pc = "idle" /\ ctx = NoCtx /\ \E tool_list \in GeminiTools, vendor \in GeminiErrors \cup GeminiAnswers :
       call_gemini_generate_sync(tool_list, vendor)
  \/ pc = "idle" /\ ctx = NoCtx /\ \E tool_calls \in AnsweredCalls : \E runs \in [DOMAIN tool_calls -> ToolRuns] :
       \E vendor \in GeminiErrors \cup {[text |-> "It is sunny.", function_calls |-> PyNone]} :
         gemini_follow_up(tool_calls, runs, vendor)

\* the ToolBridge holds the GeminiProvider itself
GeminiInit == Init /\ backing = "provider"

GeminiSpec == GeminiInit /\ [][GeminiNext]_vars

\* ---------------------------------------------------------------- C39
SentContents == log.request.contents
FollowUpSent == ctx.entry = "_generate_sync" /\ ctx.provider = "gemini" /\ ctx.args.tool_calls # <<>> /\ log.request # PyNone
IsFunctionResponse(content) == "function_response" \in DOMAIN content.parts[1]
ResponseNames == {SentContents[k].parts[1].function_response.name : k \in {k \in DOMAIN SentContents : IsFunctionResponse(SentContents[k])}}

\* C39: in the follow-up request of GeminiProvider every tool call that was
\* answered has a function response whose name is the name of the tool that
\* was called, whether its result is keyed by the tool name or by a call id
\* (one that parse_tool_calls generated included) and whether or not the tool
\* name contains a hyphen; and no function response has another name.
C39_AsStated ==
  FollowUpSent =>
    ResponseNames = {ctx.args.tool_calls[i].tool_name : i \in DOMAIN ctx.args.tool_calls}

\* ---------------------------------------------------------------- C40
GeminiFollowUp == ctx.entry = "_generate_sync" /\ ctx.provider = "gemini" /\ ctx.args.tool_calls # <<>>
\* the last tool call whose result has this key
LastCallOf(key) ==
  CHOOSE i \in DOMAIN ctx.args.tool_calls :
    /\ ResultKeyOf(ctx.args.tool_calls[i]) = key
    /\ \A j \in DOMAIN ctx.args.tool_calls : ResultKeyOf(ctx.args.tool_calls[j]) = key => j <= i
CallFailed(key) == ctx.args.runs[LastCallOf(key)].kind = "raise"
\* the function response of the k-th entry of tool_results
ResponseOf(k) == SentContents[2 * k + 1].parts[1].function_response.response
Carries(response_data, value) ==
  IF IsDict(value) \/ IsList(value) THEN response_data = value ELSE response_data = PyDict([result |-> value])
ReportsError(response_data) == IsDict(response_data) /\ "error" \in DOMAIN response_data.dict

\* C40: whatever the values of the tool-results map of a follow-up,
\* _generate_sync fails only when the request to Gemini fails, and then the
\* request holds for every entry a function response that carries the
\* entry's value and that reports an error only when the tool call failed.
C40_AsStated ==
  GeminiFollowUp =>
    /\ outcome.kind = "raise" => ctx.args.vendor \in GeminiErrors
    /\ log.request # PyNone =>
         /\ Len(SentContents) = 2 * Len(ctx.args.tool_results.items) + 1
         /\ \A k \in DOMAIN ctx.args.tool_results.items :
              /\ IsFunctionResponse(SentContents[2 * k + 1])
              /\ Carries(ResponseOf(k), ctx.args.tool_results.items[k].value)
              /\ ReportsError(ResponseOf(k)) => CallFailed(ctx.args.tool_results.items[k].key)
====
